---- MODULE Spec2Model ----
(***************************************************************************)
(* Barcode interpretation of the pharmacy scanner: GS1.parse (src/app.js)  *)
(* and UnifiedBarcodeParser (src/enhanced_pharmacy_app.js).                *)
(*                                                                         *)
(* A JavaScript string is a sequence of characters; a character is a       *)
(* one-character string, and the control / non-ASCII characters that have  *)
(* no TLA+ literal are the tokens GS, TAB, CR, LF, BEL and EACUTE.         *)
(***************************************************************************)
EXTENDS Integers, Sequences, FiniteSets

\* ------------------------------------------------------------------------
\* Characters
\* ------------------------------------------------------------------------
GS == "<GS>"
TAB == "<TAB>"
CR == "<CR>"
LF == "<LF>"
BEL == "<BEL>"
EACUTE == "<U+00E9>"

Digit == {"0", "1", "2", "3", "4", "5", "6", "7", "8", "9"}

Upper == {"A", "B", "C", "D", "E", "F", "G", "H", "I", "J", "K", "L", "M",
          "N", "O", "P", "Q", "R", "S", "T", "U", "V", "W", "X", "Y", "Z"}

Lower == {"a", "b", "c", "d", "e", "f", "g", "h", "i", "j", "k", "l", "m",
          "n", "o", "p", "q", "r", "s", "t", "u", "v", "w", "x", "y", "z"}

Punct == {" ", "(", ")", "-", "_", "/", ".", ":", "+", "|"}

\* the class [\x20-\x7E]
PrintableASCII == Digit \cup Upper \cup Lower \cup Punct

\* what String.prototype.trim removes at both ends
WhiteSpace == {" ", TAB, CR, LF}

\* the class [\r\n\t]
CrLfTab == {CR, LF, TAB}

\* the class [A-Z0-9\-_/]
BatchClass == Upper \cup Digit \cup {"-", "_", "/"}

\* the class [A-Z0-9]
SerialClass == Upper \cup Digit

\* ------------------------------------------------------------------------
\* String primitives of the JavaScript runtime
\* ------------------------------------------------------------------------
Min(a, b) == IF a < b THEN a ELSE b

Max(a, b) == IF a > b THEN a ELSE b

\* s.substring(from, to), 0-based, end exclusive, indices clamped
Substring(s, from, to) ==
  LET f == Min(Max(from, 0), Len(s))
      t == Min(Max(to, 0), Len(s))
  IN  SubSeq(s, Min(f, t) + 1, Max(f, t))

\* s.substring(from) / s.slice(from) for from >= 0
SubstringFrom(s, from) == Substring(s, from, Len(s))

\* s.replace(/[class]/g, '') for the complement class: keep the characters in keep
RECURSIVE Keep(_, _)
Keep(s, keep) ==
  IF s = <<>> THEN <<>>
  ELSE (IF Head(s) \in keep THEN <<Head(s)>> ELSE <<>>) \o Keep(Tail(s), keep)

\* s.replace(/[class]/g, ''): drop the characters in drop
RECURSIVE Strip(_, _)
Strip(s, drop) ==
  IF s = <<>> THEN <<>>
  ELSE (IF Head(s) \in drop THEN <<>> ELSE <<Head(s)>>) \o Strip(Tail(s), drop)

RECURSIVE TrimStart(_)
TrimStart(s) ==
  IF s # <<>> /\ Head(s) \in WhiteSpace THEN TrimStart(Tail(s)) ELSE s

RECURSIVE TrimEnd(_)
TrimEnd(s) ==
  IF s # <<>> /\ s[Len(s)] \in WhiteSpace THEN TrimEnd(SubSeq(s, 1, Len(s) - 1)) ELSE s

\* s.trim()
Trim(s) == TrimEnd(TrimStart(s))

\* s.startsWith(lit, at) with a 0-based offset
StartsWithAt(s, lit, at) ==
  /\ at + Len(lit) <= Len(s)
  /\ \A k \in 1..Len(lit) : s[at + k] = lit[k]

\* s.startsWith(lit)
StartsWith(s, lit) == StartsWithAt(s, lit, 0)

\* s.includes(lit)
Includes(s, lit) == \E at \in 0..Len(s) : StartsWithAt(s, lit, at)

\* s.padStart(width, '0')
RECURSIVE PadStart(_, _)
PadStart(s, width) == IF Len(s) >= width THEN s ELSE PadStart(<<"0">> \o s, width)

\* true when the n characters at 0-based offset at exist and are all in class
AllInClassAt(s, at, n, class) ==
  /\ at + n <= Len(s)
  /\ \A k \in 1..n : s[at + k] \in class

\* length of the longest run of characters of class starting at 0-based offset at
RECURSIVE RunLength(_, _, _)
RunLength(s, at, class) ==
  IF at < Len(s) /\ s[at + 1] \in class THEN 1 + RunLength(s, at + 1, class) ELSE 0

\* the absent value (a failed match, an unset property, null, undefined),
\* told apart from every string, the empty string included
Absent == <<"<absent>">>

\* every character of the model
Alphabet == PrintableASCII \cup {GS, TAB, CR, LF, BEL, EACUTE}

\* the class [^(]
NotParen == Alphabet \ {"("}

SetMin(S) == CHOOSE x \in S : \A y \in S : x <= y

\* ------------------------------------------------------------------------
\* Regular expressions of the two parsers; each gives capture group 1 of the
\* leftmost match, or Absent
\* ------------------------------------------------------------------------
\* /lit(\d{n})/
MatchFixed(s, lit, n) ==
  LET hits == {at \in 0..Len(s) :
                 /\ StartsWithAt(s, lit, at)
                 /\ AllInClassAt(s, at + Len(lit), n, Digit)}
  IN  IF hits = {} THEN Absent
      ELSE Substring(s, SetMin(hits) + Len(lit), SetMin(hits) + Len(lit) + n)

\* /lit(.+)/: the capture not stopped at the next "("
MatchUntilParen_ToEnd(s, lit) ==
  LET hits == {at \in 0..Len(s) :
                 /\ StartsWithAt(s, lit, at)
                 /\ at + Len(lit) < Len(s)}
  IN  IF hits = {} THEN Absent
      ELSE SubstringFrom(s, SetMin(hits) + Len(lit))

\* /lit([^(]+)/
MatchUntilParen(s, lit) ==
  LET hits == {at \in 0..Len(s) :
                 /\ StartsWithAt(s, lit, at)
                 /\ RunLength(s, at + Len(lit), NotParen) >= 1}
  IN  IF hits = {} THEN Absent
      ELSE LET p == SetMin(hits) + Len(lit)
           IN  Substring(s, p, p + RunLength(s, p, NotParen))

\* the lengths k >= 1 for which /lit([class]+?)(?:t1|t2|...|$)/ matches at offset at
LazyLengths(s, lit, class, terms, at) ==
  LET p == at + Len(lit)
  IN  {k \in 1..RunLength(s, p, class) :
         \/ p + k = Len(s)
         \/ \E t \in terms : StartsWithAt(s, t, p + k)}

\* /lit([class]+?)(?:t1|t2|...|$)/
MatchLazy(s, lit, class, terms) ==
  LET hits == {at \in 0..Len(s) :
                 /\ StartsWithAt(s, lit, at)
                 /\ LazyLengths(s, lit, class, terms, at) # {}}
  IN  IF hits = {} THEN Absent
      ELSE LET at == SetMin(hits)
               p == at + Len(lit)
           IN  Substring(s, p, p + SetMin(LazyLengths(s, lit, class, terms, at)))

\* ------------------------------------------------------------------------
\* Numbers
\* ------------------------------------------------------------------------
\* a JavaScript number is an integer or NaN
Num(v) == [nan |-> FALSE, v |-> v]

NaN == [nan |-> TRUE, v |-> 0]

DigitVal(c) ==
  CASE c = "0" -> 0 [] c = "1" -> 1 [] c = "2" -> 2 [] c = "3" -> 3
    [] c = "4" -> 4 [] c = "5" -> 5 [] c = "6" -> 6 [] c = "7" -> 7
    [] c = "8" -> 8 [] c = "9" -> 9

DigitChar(d) ==
  CASE d = 0 -> "0" [] d = 1 -> "1" [] d = 2 -> "2" [] d = 3 -> "3"
    [] d = 4 -> "4" [] d = 5 -> "5" [] d = 6 -> "6" [] d = 7 -> "7"
    [] d = 8 -> "8" [] d = 9 -> "9"

HexDigit == Digit \cup {"A", "B", "C", "D", "E", "F", "a", "b", "c", "d", "e", "f"}

HexVal(c) ==
  CASE c \in Digit -> DigitVal(c)
    [] c \in {"A", "a"} -> 10 [] c \in {"B", "b"} -> 11 [] c \in {"C", "c"} -> 12
    [] c \in {"D", "d"} -> 13 [] c \in {"E", "e"} -> 14 [] c \in {"F", "f"} -> 15

\* value of the leading run of digits of s in the given radix, acc so far
RECURSIVE ParseDigits(_, _, _)
ParseDigits(s, radix, acc) ==
  IF s # <<>> /\ Head(s) \in (IF radix = 16 THEN HexDigit ELSE Digit)
  THEN ParseDigits(Tail(s), radix, acc * radix + HexVal(Head(s)))
  ELSE acc

\* parseInt(s) without a radix: leading white space, a sign, an optional 0x
ParseInt(s) ==
  LET t == TrimStart(s)
      neg == t # <<>> /\ Head(t) = "-"
      u == IF t # <<>> /\ Head(t) \in {"-", "+"} THEN Tail(t) ELSE t
      hex == StartsWith(u, <<"0", "x">>) \/ StartsWith(u, <<"0", "X">>)
      v == IF hex THEN SubstringFrom(u, 2) ELSE u
      radix == IF hex THEN 16 ELSE 10
  IN  IF v = <<>> \/ Head(v) \notin (IF hex THEN HexDigit ELSE Digit) THEN NaN
      ELSE IF neg THEN Num(0 - ParseDigits(v, radix, 0))
      ELSE Num(ParseDigits(v, radix, 0))

\* String(n) for a non-negative integer
RECURSIVE NatToString(_)
NatToString(n) ==
  IF n < 10 THEN <<DigitChar(n)>> ELSE NatToString(n \div 10) \o <<DigitChar(n % 10)>>

\* String(n)
NumToString(n) ==
  IF n.nan THEN <<"N", "a", "N">>
  ELSE IF n.v < 0 THEN <<"-">> \o NatToString(0 - n.v)
  ELSE NatToString(n.v)

\* ------------------------------------------------------------------------
\* Calendar of the Date object
\* ------------------------------------------------------------------------
IsLeap(y) == (y % 4 = 0 /\ y % 100 # 0) \/ y % 400 = 0

DaysInMonth(y, m) ==
  IF m = 2 THEN (IF IsLeap(y) THEN 29 ELSE 28)
  ELSE IF m \in {4, 6, 9, 11} THEN 30
  ELSE 31

\* new Date(yr, mm, 0).getDate(): day 0 of the 0-based month mm is the last
\* day of the month before it, months outside 0..11 carry into the year
LastDayOfMonth(yr, mm) ==
  IF yr.nan \/ mm.nan THEN NaN
  ELSE Num(DaysInMonth(yr.v + ((mm.v - 1) \div 12), ((mm.v - 1) % 12) + 1))

\* ------------------------------------------------------------------------
\* GS1 (src/app.js)
\* ------------------------------------------------------------------------
\* the result object GS1.parse starts from
GS1Result(raw) ==
  [raw |-> raw, gtin |-> <<>>, expiry |-> <<>>, expiryISO |-> <<>>,
   expiryDisplay |-> <<>>, batch |-> <<>>, serial |-> <<>>, qty |-> 1,
   isGS1 |-> FALSE]

\* GS1._expiry(yymmdd, r): r after the call
GS1_expiry(yymmdd, r) ==
  IF yymmdd = <<>> \/ Len(yymmdd) # 6 THEN r
  ELSE LET yy == ParseInt(Substring(yymmdd, 0, 2))
           mm == ParseInt(Substring(yymmdd, 2, 4))
           dd0 == ParseInt(Substring(yymmdd, 4, 6))
           yr == IF yy.nan THEN NaN ELSE Num(2000 + yy.v)
           dd == IF ~dd0.nan /\ dd0.v = 0 THEN LastDayOfMonth(yr, mm) ELSE dd0
       IN  [r EXCEPT
             !.expiry = yymmdd,
             !.expiryISO = NumToString(yr) \o <<"-">> \o PadStart(NumToString(mm), 2)
                             \o <<"-">> \o PadStart(NumToString(dd), 2),
             !.expiryDisplay = PadStart(NumToString(dd), 2) \o <<"/">>
                                 \o PadStart(NumToString(mm), 2) \o <<"/">>
                                 \o NumToString(yr)]

\* GS1._varEnd(code, start): offset of the first separator at or after start
RECURSIVE GS1_varEnd(_, _)
GS1_varEnd(code, start) ==
  IF start >= Len(code) THEN Len(code)
  ELSE IF code[start + 1] = GS THEN start
  ELSE GS1_varEnd(code, start + 1)

\* .replace(/[^\x20-\x7E]/g,'').trim().substring(0,20)
Sanitize(s) == Substring(Trim(Keep(s, PrintableASCII)), 0, 20)

\* the while loop of the raw concatenated branch, from cursor pos
RECURSIVE GS1_scan(_, _, _)
GS1_scan(code, pos, r) ==
  IF pos >= Len(code) THEN r
  ELSE IF code[pos + 1] = GS THEN GS1_scan(code, pos + 1, r)
  ELSE LET ai == Substring(code, pos, pos + 2)
       IN  IF ai = <<"0", "1">>
           THEN GS1_scan(code, pos + 16,
                         [r EXCEPT !.gtin = Substring(code, pos + 2, pos + 16)])
           ELSE IF ai = <<"1", "7">>
           THEN GS1_scan(code, pos + 8,
                         GS1_expiry(Substring(code, pos + 2, pos + 8), r))
           ELSE IF ai = <<"1", "0">>
           THEN LET e == GS1_varEnd(code, pos + 2)
                IN  GS1_scan(code, e,
                             [r EXCEPT !.batch = Sanitize(Substring(code, pos + 2, e))])
           ELSE IF ai = <<"2", "1">>
           THEN LET e == GS1_varEnd(code, pos + 2)
                IN  GS1_scan(code, e,
                             [r EXCEPT !.serial = Sanitize(Substring(code, pos + 2, e))])
           ELSE GS1_scan(code, pos + 1, r)

\* the parenthesised branch
GS1_parens(code, r) ==
  LET g == MatchFixed(code, <<"(", "0", "1", ")">>, 14)
      e == MatchFixed(code, <<"(", "1", "7", ")">>, 6)
      b == MatchUntilParen(code, <<"(", "1", "0", ")">>)
      s == MatchUntilParen(code, <<"(", "2", "1", ")">>)
      r1 == IF g # Absent THEN [r EXCEPT !.gtin = g] ELSE r
      r2 == IF e # Absent THEN GS1_expiry(e, r1) ELSE r1
      r3 == IF b # Absent THEN [r2 EXCEPT !.batch = Sanitize(b)] ELSE r2
  IN  IF s # Absent THEN [r3 EXCEPT !.serial = Sanitize(s)] ELSE r3

\* GS1.parse(raw)
GS1_parse(raw) ==
  LET result == GS1Result(raw)
      code == Strip(Trim(raw), CrLfTab)
      hasParens == Includes(code, <<"(">>)
      hasRawGS1 == StartsWith(code, <<"0", "1">>) /\ AllInClassAt(code, 2, 14, Digit)
      d == Keep(code, Digit)
  IN  IF raw = <<>> THEN result
      ELSE IF ~hasParens /\ ~hasRawGS1
      THEN IF Len(d) >= 8 /\ Len(d) <= 14
           THEN [result EXCEPT !.gtin = PadStart(d, 14)]
           ELSE result
      ELSE IF hasParens THEN GS1_parens(code, [result EXCEPT !.isGS1 = TRUE])
      ELSE GS1_scan(code, 0, [result EXCEPT !.isGS1 = TRUE])

\* ------------------------------------------------------------------------
\* UnifiedBarcodeParser (src/enhanced_pharmacy_app.js)
\* ------------------------------------------------------------------------
\* a parse result with none of its properties set
UnifiedResult ==
  [format |-> Absent, raw |-> Absent, gtin |-> Absent, expiryRaw |-> Absent,
   expiry |-> Absent, batch |-> Absent, serial |-> Absent,
   productionDateRaw |-> Absent, productionDate |-> Absent, code |-> Absent,
   ean13 |-> Absent, legacy |-> Absent, error |-> Absent]

F_GS1_PARENTHESIZED == <<"GS1_PARENTHESIZED">>

F_GS1_FULL == <<"GS1_FULL">>

F_GTIN14 == <<"GTIN14">>

F_EAN13 == <<"EAN13">>

F_LEGACY12 == <<"LEGACY12">>

F_EAN8 == <<"EAN8">>

F_UNKNOWN == <<"UNKNOWN">>

E_EMPTY == <<"Empty barcode">>

E_UNRECOGNIZED == <<"Unrecognized barcode format">>

\* detectFormat without the test barcode.length > 16
detectFormat_NoLengthTest(barcode) ==
  LET cleaned == Keep(barcode, Digit)
  IN  IF Includes(barcode, <<"(", "0", "1", ")">>) THEN F_GS1_PARENTHESIZED
      ELSE IF /\ StartsWith(barcode, <<"0", "1">>)
              /\ \/ Includes(barcode, <<"1", "7">>)
                 \/ Includes(barcode, <<"2", "1">>)
                 \/ Includes(barcode, <<"1", "0">>)
      THEN F_GS1_FULL
      ELSE IF Len(cleaned) = 14 THEN F_GTIN14
      ELSE IF Len(cleaned) = 13 THEN F_EAN13
      ELSE IF Len(cleaned) = 12 THEN F_LEGACY12
      ELSE IF Len(cleaned) = 8 THEN F_EAN8
      ELSE F_UNKNOWN

\* detectFormat without the line for 8 digits
detectFormat_NoEAN8(barcode) ==
  LET cleaned == Keep(barcode, Digit)
  IN  IF Includes(barcode, <<"(", "0", "1", ")">>) THEN F_GS1_PARENTHESIZED
      ELSE IF /\ StartsWith(barcode, <<"0", "1">>)
              /\ Len(barcode) > 16
              /\ \/ Includes(barcode, <<"1", "7">>)
                 \/ Includes(barcode, <<"2", "1">>)
                 \/ Includes(barcode, <<"1", "0">>)
      THEN F_GS1_FULL
      ELSE IF Len(cleaned) = 14 THEN F_GTIN14
      ELSE IF Len(cleaned) = 13 THEN F_EAN13
      ELSE IF Len(cleaned) = 12 THEN F_LEGACY12
      ELSE F_UNKNOWN

\* detectFormat(barcode)
detectFormat(barcode) ==
  LET cleaned == Keep(barcode, Digit)
  IN  IF Includes(barcode, <<"(", "0", "1", ")">>) THEN F_GS1_PARENTHESIZED
      ELSE IF /\ StartsWith(barcode, <<"0", "1">>)
              /\ Len(barcode) > 16
              /\ \/ Includes(barcode, <<"1", "7">>)
                 \/ Includes(barcode, <<"2", "1">>)
                 \/ Includes(barcode, <<"1", "0">>)
      THEN F_GS1_FULL
      ELSE IF Len(cleaned) = 14 THEN F_GTIN14
      ELSE IF Len(cleaned) = 13 THEN F_EAN13
      ELSE IF Len(cleaned) = 12 THEN F_LEGACY12
      ELSE IF Len(cleaned) = 8 THEN F_EAN8
      ELSE F_UNKNOWN

\* formatExpiry(yymmdd)
formatExpiry(yymmdd) ==
  IF yymmdd = <<>> \/ Len(yymmdd) # 6 THEN Absent
  ELSE LET yy == Substring(yymmdd, 0, 2)
           mm == Substring(yymmdd, 2, 4)
           dd == Substring(yymmdd, 4, 6)
           year == <<"2", "0">> \o yy
       IN  year \o <<"-">> \o mm \o <<"-">> \o dd

\* parseParenthesized(barcode)
parseParenthesized(barcode) ==
  LET gtinMatch == MatchFixed(barcode, <<"(", "0", "1", ")">>, 14)
      expiryMatch == MatchFixed(barcode, <<"(", "1", "7", ")">>, 6)
      batchMatch == MatchUntilParen(barcode, <<"(", "1", "0", ")">>)
      serialMatch == MatchUntilParen(barcode, <<"(", "2", "1", ")">>)
      prodDateMatch == MatchFixed(barcode, <<"(", "1", "1", ")">>, 6)
  IN  [UnifiedResult EXCEPT
        !.format = F_GS1_PARENTHESIZED,
        !.raw = barcode,
        !.gtin = gtinMatch,
        !.expiryRaw = expiryMatch,
        !.expiry = IF expiryMatch # Absent THEN formatExpiry(expiryMatch) ELSE Absent,
        !.batch = IF batchMatch # Absent THEN Trim(batchMatch) ELSE Absent,
        !.serial = IF serialMatch # Absent THEN Trim(serialMatch) ELSE Absent,
        !.productionDateRaw = prodDateMatch,
        !.productionDate = IF prodDateMatch # Absent THEN formatExpiry(prodDateMatch)
                           ELSE Absent]

\* the alternatives that end a batch: (?:17|21|11|24|01|$)
BatchTerminators == {<<"1", "7">>, <<"2", "1">>, <<"1", "1">>, <<"2", "4">>, <<"0", "1">>}

\* the alternatives that end a serial: (?:17|10|11|24|01|$)
SerialTerminators == {<<"1", "7">>, <<"1", "0">>, <<"1", "1">>, <<"2", "4">>, <<"0", "1">>}

\* parseNonParenthesized(barcode)
parseNonParenthesized(barcode) ==
  LET remaining == SubstringFrom(barcode, 16)
      expiryMatch == MatchFixed(remaining, <<"1", "7">>, 6)
      batchMatch == MatchLazy(remaining, <<"1", "0">>, BatchClass, BatchTerminators)
      serialMatch == MatchLazy(remaining, <<"2", "1">>, SerialClass, SerialTerminators)
      prodDateMatch == MatchFixed(remaining, <<"1", "1">>, 6)
  IN  [UnifiedResult EXCEPT
        !.format = F_GS1_FULL,
        !.raw = barcode,
        !.gtin = IF StartsWith(barcode, <<"0", "1">>) THEN Substring(barcode, 2, 16)
                 ELSE Absent,
        !.expiryRaw = expiryMatch,
        !.expiry = IF expiryMatch # Absent THEN formatExpiry(expiryMatch) ELSE Absent,
        !.batch = batchMatch,
        !.serial = serialMatch,
        !.productionDateRaw = prodDateMatch,
        !.productionDate = IF prodDateMatch # Absent THEN formatExpiry(prodDateMatch)
                           ELSE Absent]

\* parseSimple that sets gtin for every format
parseSimple_GtinAlways(barcode, format) ==
  LET cleaned == Keep(barcode, Digit)
  IN  [UnifiedResult EXCEPT
        !.format = format,
        !.raw = barcode,
        !.code = cleaned,
        !.gtin = cleaned,
        !.ean13 = IF format = F_EAN13 THEN cleaned ELSE Absent,
        !.legacy = IF format = F_LEGACY12 THEN cleaned ELSE Absent]

\* parseSimple(barcode, format)
parseSimple(barcode, format) ==
  LET cleaned == Keep(barcode, Digit)
  IN  [UnifiedResult EXCEPT
        !.format = format,
        !.raw = barcode,
        !.code = cleaned,
        !.gtin = IF format = F_GTIN14 THEN cleaned ELSE Absent,
        !.ean13 = IF format = F_EAN13 THEN cleaned ELSE Absent,
        !.legacy = IF format = F_LEGACY12 THEN cleaned ELSE Absent]

\* parse(barcode) testing only !barcode, not the trimmed length
parse_OnlyEmptyTested(barcode) ==
  IF barcode = <<>>
  THEN [UnifiedResult EXCEPT !.error = E_EMPTY]
  ELSE LET format == detectFormat(barcode)
       IN  IF format = F_GS1_PARENTHESIZED THEN parseParenthesized(barcode)
           ELSE IF format = F_GS1_FULL THEN parseNonParenthesized(barcode)
           ELSE IF format \in {F_GTIN14, F_EAN13, F_LEGACY12, F_EAN8}
           THEN parseSimple(barcode, format)
           ELSE [UnifiedResult EXCEPT
                  !.format = F_UNKNOWN, !.raw = barcode, !.error = E_UNRECOGNIZED]

\* parse(barcode)
parse(barcode) ==
  IF barcode = <<>> \/ Len(Trim(barcode)) = 0
  THEN [UnifiedResult EXCEPT !.error = E_EMPTY]
  ELSE LET format == detectFormat(barcode)
       IN  IF format = F_GS1_PARENTHESIZED THEN parseParenthesized(barcode)
           ELSE IF format = F_GS1_FULL THEN parseNonParenthesized(barcode)
           ELSE IF format \in {F_GTIN14, F_EAN13, F_LEGACY12, F_EAN8}
           THEN parseSimple(barcode, format)
           ELSE [UnifiedResult EXCEPT
                  !.format = F_UNKNOWN, !.raw = barcode, !.error = E_UNRECOGNIZED]

\* ------------------------------------------------------------------------
\* Scanned inputs
\* ------------------------------------------------------------------------
\* length of the over-long batch / serial value
LongLen == 21

\* longest plain digit string scanned
MaxPlainDigits == 17

RECURSIVE Repeat(_, _)
Repeat(c, n) == IF n = 0 THEN <<>> ELSE <<c>> \o Repeat(c, n - 1)

G1 == <<"0", "0", "0", "1", "2", "3", "4", "5", "6", "7", "8", "9", "0", "5">>

Gtins == {G1}

\* YYMMDD tokens: a plain date, day 00, day 00 in a leap February, month 13,
\* month 00, and a date whose digits contain the tags 10 and 11
Dates == {<<"2", "6", "0", "6", "3", "0">>,
          <<"2", "6", "0", "6", "0", "0">>,
          <<"2", "4", "0", "2", "0", "0">>,
          <<"2", "6", "1", "3", "3", "0">>,
          <<"2", "6", "0", "0", "1", "5">>,
          <<"2", "5", "1", "0", "3", "1">>}

\* batch / serial values: plain, lower case, padded with blanks, over-long,
\* with a control character, with a non-ASCII character, with the digits of a tag
Texts == {<<"B", "A", "T", "C", "H", "1">>,
          <<"S", "E", "R", "9", "9">>,
          <<"a", "b", "1">>,
          <<" ", "A", "1", " ">>,
          <<"A", BEL, "B">>,
          <<"L", EACUTE>>,
          <<"B", "1", "7", "X">>,
          Repeat("X", LongLen)}

Opt(S) == S \cup {Absent}

Field(tag, v) == IF v = Absent THEN <<>> ELSE tag \o v

\* (01)g(17)e(10)b(21)s
Parenthesized(g, e, b, s) ==
  Field(<<"(", "0", "1", ")">>, g) \o Field(<<"(", "1", "7", ")">>, e)
    \o Field(<<"(", "1", "0", ")">>, b) \o Field(<<"(", "2", "1", ")">>, s)

\* the same fields in the opposite order: (21)s(10)b(17)e(01)g
ParenthesizedReversed(g, e, b, s) ==
  Field(<<"(", "2", "1", ")">>, s) \o Field(<<"(", "1", "0", ")">>, b)
    \o Field(<<"(", "1", "7", ")">>, e) \o Field(<<"(", "0", "1", ")">>, g)

\* 01g17e10b<sep>21s, sep the Group Separator or nothing
Positional(g, e, b, s, sep) ==
  <<"0", "1">> \o g \o Field(<<"1", "7">>, e)
    \o (IF b = Absent THEN <<>> ELSE <<"1", "0">> \o b \o sep)
    \o Field(<<"2", "1">>, s)

ParenthesizedInputs ==
  {Parenthesized(g, e, b, s) : g \in Opt(Gtins), e \in Opt(Dates), b \in Opt(Texts), s \in Opt(Texts)}
    \cup {ParenthesizedReversed(g, e, b, s) :
            g \in Opt(Gtins), e \in Opt(Dates), b \in Opt(Texts), s \in Opt(Texts)}

PositionalInputs ==
  {Positional(g, e, b, s, sep) :
     g \in Gtins, e \in Opt(Dates), b \in Opt(Texts), s \in Opt(Texts), sep \in {<<GS>>, <<>>}}

PlainDigits == <<"6", "2", "9", "1", "1", "0", "7", "4", "3", "9", "3", "5", "8", "1", "2", "3", "4">> \o Repeat("7", MaxPlainDigits)

PlainDigits01 == <<"0", "1", "0", "0", "0", "1", "2", "3", "4", "5", "6", "7", "8", "9", "0", "5", "1">> \o Repeat("7", MaxPlainDigits)

\* digit strings of every length up to MaxPlainDigits, bare, hyphenated and blank-padded
PlainInputs ==
  UNION {{Substring(p, 0, n),
          Substring(p, 0, 4) \o <<"-">> \o Substring(p, 4, n),
          <<" ">> \o Substring(p, 0, n) \o <<" ", " ">>} :
         p \in {PlainDigits, PlainDigits01}, n \in 0..MaxPlainDigits}

\* shapes outside the three families
OtherInputs ==
  {<<>>,
   <<" ", " ">>,
   <<TAB>>,
   <<"(">>,
   <<"A", "B", "C">>,
   <<"(", "1", "0", ")", "(", "1", "0", ")", "A", "B">>,
   <<"0", "1", "A", "B", "C", "D", "E", "F", "G", "H", "I", "J", "K", "L", "M", "N", "1", "7">>,
   <<"0", "1", "0", "0", "0", "1", "2", "3", "4", "5", "6", "7", "8", "9", "0", "5", "9", "9">>,
   <<"0", "1", "9", "9", "9", "9", "9", "9", "9", "9", "9", "9", "9", "9", "9", "9", "5", "X">>,
   <<"0", "1", "0", "0", "0", "1", "2", "3", "4", "5", "6", "7", "8", "9", "0", "5", "1", "1", "2", "6", "0", "1", "0", "1", "1", "7", "2", "6", "0", "6", "3">>,
   <<"0", "1", "0", "0", "0", "1", "2", "3", "4", "5", "6", "7", "8", "9", "0", "5", "0", "1", "1", "2">>,
   <<"0", "1", "0", "0", "0", "1", "2", "3", "4", "5", "6", "7", "8", "9", "0", "5", GS, "3", "7", "9", "9">>,
   <<"0", "1", "0", "0", "0", "1", "2", "3", "4", "5", "6", "7", "8", "9", "0", "5", " ", "1", "7", "2", "6", "0", "6", "3", "0">>,
   <<"(", "0", "1", ")", "1", "2", "3", "4", "(", "1", "7", ")", "2", "6", "0", "6", "3", "0", "(", "1", "0", ")", "B", "1">>,
   <<"(", "0", "1", ")", "0", "0", "0", "1", "2", "3", "4", "5", "6", "7", "8", "9", "0", "5", "(", "1", "1", ")", "2", "6", "0", "6", "0", "0">>,
   <<"(", "0", "1", ")", "0", "0", "0", "1", "2", "3", "4", "5", "6", "7", "8", "9", "0", "5", "(", "1", "1", ")", "2", "6", "1", "3", "3", "0">>,
   <<"0", "1", "0", "0", "0", "1", "2", "3", "4", "5", "6", "7", "8", "9", "0", "5", "1", "1", "2", "6", "0", "6", "0", "0", "1", "0", "B", "1">>,
   <<"(", "1", "7", ")", "2", "6", "0", "6", "3", "0", "(", "1", "0", ")", "B", "1", TAB, "(", "2", "1", ")", "S", "1", CR, LF>>,
   <<" ", "(", "0", "1", ")", "0", "0", "0", "1", "2", "3", "4", "5", "6", "7", "8", "9", "0", "5", "(", "1", "0", ")", " ", "B", " ", "1", " ">>}

\* production dates: a plain one, and one whose digits contain the tag 10
ProductionDates == {<<"2", "5", "0", "6", "3", "0">>,
                    <<"2", "5", "1", "0", "1", "7">>}

\* 01g<GS>11p<GS>17e<GS>10b<GS>21s: every element after the GTIN behind a
\* Group Separator
Separated(g, p, e, b, s) ==
  <<"0", "1">> \o g \o Field(<<GS, "1", "1">>, p) \o Field(<<GS, "1", "7">>, e)
    \o Field(<<GS, "1", "0">>, b) \o Field(<<GS, "2", "1">>, s)

SeparatedInputs ==
  {Separated(g, p, e, b, s) :
     g \in Gtins, p \in Opt(ProductionDates),
     e \in Opt({<<"2", "6", "0", "6", "3", "0">>}),
     b \in Opt({<<"B", "A", "T", "C", "H", "1">>, <<"B", "1", "7", "X">>}),
     s \in Opt({<<"S", "E", "R", "9", "9">>})}

Inputs ==
  ParenthesizedInputs \cup PositionalInputs \cup SeparatedInputs \cup PlainInputs
    \cup OtherInputs

\* ------------------------------------------------------------------------
\* Master (src/app.js): the index over the master product list
\* ------------------------------------------------------------------------
\* s.slice(-n)
SliceLast(s, n) == Substring(s, Len(s) - n, Len(s))

\* new Map()
EmptyMap == <<>>

\* map.set(k, v)
MapSet(map, k, v) == [x \in DOMAIN map \cup {k} |-> IF x = k THEN v ELSE map[x]]

\* the two maps of S after masterIndex.clear() and masterRMS.clear()
ClearedIndex == [masterIndex |-> EmptyMap, masterRMS |-> EmptyMap]

\* the keys without the 8-digit suffix
BuildKeys_NoSuffix(bc) ==
  LET g14 == PadStart(bc, 14)
  IN  SelectSeq(<<bc,
                  g14,
                  IF StartsWith(g14, <<"0">>) THEN SubstringFrom(g14, 1) ELSE <<>>,
                  <<>>>>,
                LAMBDA k : k # <<>>)

\* the keys without the padded form minus its leading zero
BuildKeys_NoStripped(bc) ==
  LET g14 == PadStart(bc, 14)
  IN  SelectSeq(<<bc, g14, <<>>, SliceLast(bc, 8)>>, LAMBDA k : k # <<>>)

\* [bc, g14, g14.startsWith('0')?g14.slice(1):'', bc.slice(-8)].filter(Boolean)
BuildKeys(bc) ==
  LET g14 == PadStart(bc, 14)
  IN  SelectSeq(<<bc,
                  g14,
                  IF StartsWith(g14, <<"0">>) THEN SubstringFrom(g14, 1) ELSE <<>>,
                  SliceLast(bc, 8)>>,
                LAMBDA k : k # <<>>)

\* the forEach over the keys of one item: each map keeps the value it has
RECURSIVE Register(_, _, _)
Register(idx, keys, it) ==
  IF keys = <<>> THEN idx
  ELSE LET k == Head(keys)
           names == IF k \in DOMAIN idx.masterIndex THEN idx.masterIndex
                    ELSE MapSet(idx.masterIndex, k, it.name)
           codes == IF it.rms # "" /\ k \notin DOMAIN idx.masterRMS
                    THEN MapSet(idx.masterRMS, k, it.rms)
                    ELSE idx.masterRMS
       IN  Register([masterIndex |-> names, masterRMS |-> codes], Tail(keys), it)

\* the loop of Master.build over the items left in data
RECURSIVE BuildFrom(_, _)
BuildFrom(idx, data) ==
  IF data = <<>> THEN idx
  ELSE LET it == Head(data)
           bc == Keep(it.barcode, Digit)
       IN  BuildFrom(IF bc = <<>> \/ Len(bc) < 8 THEN idx
                     ELSE Register(idx, BuildKeys(bc), it),
                     Tail(data))

\* Master.build(data)
Master_build(data) == BuildFrom(ClearedIndex, data)

\* the result {name, rms, how} of Master.find
Match(name, rms, how) == [name |-> name, rms |-> rms, how |-> how]

\* [gtin, gtin.startsWith('0')?gtin.slice(1):'', gtin.slice(-8)].filter(Boolean)
Candidates(gtin) ==
  SelectSeq(<<gtin,
              IF StartsWith(gtin, <<"0">>) THEN SubstringFrom(gtin, 1) ELSE <<>>,
              SliceLast(gtin, 8)>>,
            LAMBDA c : c # <<>>)

\* the loop of Master.find over the candidates left
RECURSIVE FindFrom(_, _, _)
FindFrom(idx, cands, gtin) ==
  IF cands = <<>> THEN Match("", "", "NONE")
  ELSE LET c == Head(cands)
       IN  IF c \in DOMAIN idx.masterIndex
           THEN Match(idx.masterIndex[c],
                      IF c \in DOMAIN idx.masterRMS THEN idx.masterRMS[c] ELSE "",
                      IF c = gtin THEN "EXACT" ELSE "PARTIAL")
           ELSE FindFrom(idx, Tail(cands), gtin)

\* Master.find(gtin) with the suffix tried before the stripped form
Master_find_SuffixFirst(idx, gtin) ==
  IF gtin = <<>> THEN Match("", "", "NONE")
  ELSE FindFrom(idx,
                SelectSeq(<<gtin,
                            SliceLast(gtin, 8),
                            IF StartsWith(gtin, <<"0">>) THEN SubstringFrom(gtin, 1)
                            ELSE <<>>>>,
                          LAMBDA c : c # <<>>),
                gtin)

\* Master.find(gtin) on the maps idx
Master_find(idx, gtin) ==
  IF gtin = <<>> THEN Match("", "", "NONE")
  ELSE FindFrom(idx, Candidates(gtin), gtin)

\* ------------------------------------------------------------------------
\* Time values of the Date object, in hours since 1970-01-01T00:00Z; the time
\* zone of the runtime is tz hours east of UTC
\* ------------------------------------------------------------------------
\* the leap years before year y
LeapsBefore(y) == ((y - 1) \div 4) - ((y - 1) \div 100) + ((y - 1) \div 400)

RECURSIVE DaysBeforeMonth(_, _)
DaysBeforeMonth(y, m) ==
  IF m = 1 THEN 0 ELSE DaysBeforeMonth(y, m - 1) + DaysInMonth(y, m - 1)

\* days from 1970-01-01 to the day d of month m of year y
DayNumber(y, m, d) ==
  365 * (y - 1970) + LeapsBefore(y) - LeapsBefore(1970) + DaysBeforeMonth(y, m) + d - 1

\* s has the form YYYY-MM-DD
IsISODate(s) ==
  /\ Len(s) = 10
  /\ \A k \in {1, 2, 3, 4, 6, 7, 9, 10} : s[k] \in Digit
  /\ s[5] = "-"
  /\ s[8] = "-"

ISOYear(s) == ParseDigits(SubSeq(s, 1, 4), 10, 0)

ISOMonth(s) == ParseDigits(SubSeq(s, 6, 7), 10, 0)

ISODay(s) == ParseDigits(SubSeq(s, 9, 10), 10, 0)

\* new Date(s) for a date-only string: midnight UTC of a date of the calendar,
\* an invalid Date (time value NaN) for a month outside 01..12 or a day 00
\* (a day 29..31 past the end of its month is parsed differently by different
\* engines and is not given to this operator)
DateParse(s) ==
  IF /\ IsISODate(s)
     /\ ISOMonth(s) \in 1..12
     /\ ISODay(s) \in 1..DaysInMonth(ISOYear(s), ISOMonth(s))
  THEN Num(24 * DayNumber(ISOYear(s), ISOMonth(s), ISODay(s)))
  ELSE NaN

\* the local calendar day, counted from 1970-01-01, that holds the time t
LocalDay(t, tz) == (t + tz) \div 24

\* d.setHours(0,0,0,0): midnight, local time, of the local day of t
SetHoursZero(t, tz) == 24 * LocalDay(t, tz) - tz

\* ------------------------------------------------------------------------
\* Expiry status (src/app.js GS1.status, src/enhanced_pharmacy_app.js
\* calculateExpiryStatus)
\* ------------------------------------------------------------------------
\* CFG.SOON_DAYS
SOON_DAYS == 90

\* GS1.status(isoDate) called at time now; a NaN diff fails both comparisons
GS1_status(isoDate, now, tz) ==
  IF isoDate = <<>> THEN "unknown"
  ELSE LET today == SetHoursZero(now, tz)
           exp == DateParse(isoDate)
       IN  IF exp.nan THEN "ok"
           ELSE LET diff == (SetHoursZero(exp.v, tz) - today) \div 24
                IN  IF diff < 0 THEN "expired"
                    ELSE IF diff <= SOON_DAYS THEN "expiring"
                    ELSE "ok"

\* Math.ceil(a / 24)
CeilDays(a) == 0 - ((0 - a) \div 24)

\* calculateExpiryStatus(expiryDate).class called at time now
calculateExpiryStatus(expiryDate, now) ==
  IF expiryDate = <<>> THEN ""
  ELSE LET expiry == DateParse(expiryDate)
       IN  IF expiry.nan THEN "normal-expiry"
           ELSE LET daysUntilExpiry == CeilDays(expiry.v - now)
                IN  IF daysUntilExpiry < 0 THEN "expired"
                    ELSE IF daysUntilExpiry <= 30 THEN "short-expiry"
                    ELSE IF daysUntilExpiry <= 90 THEN "medium-expiry"
                    ELSE "normal-expiry"

\* ------------------------------------------------------------------------
\* extractDateFromOCR (src/app.js)
\* ------------------------------------------------------------------------
UpperLetters ==
  <<"A", "B", "C", "D", "E", "F", "G", "H", "I", "J", "K", "L", "M",
    "N", "O", "P", "Q", "R", "S", "T", "U", "V", "W", "X", "Y", "Z">>

LowerLetters ==
  <<"a", "b", "c", "d", "e", "f", "g", "h", "i", "j", "k", "l", "m",
    "n", "o", "p", "q", "r", "s", "t", "u", "v", "w", "x", "y", "z">>

ECAPACUTE == "<U+00C9>"

\* c.toUpperCase() for one character
UpperOf(c) ==
  IF c \in Lower THEN UpperLetters[CHOOSE i \in 1..26 : LowerLetters[i] = c]
  ELSE IF c = EACUTE THEN ECAPACUTE
  ELSE c

\* s.toUpperCase()
RECURSIVE ToUpperCase(_)
ToUpperCase(s) == IF s = <<>> THEN <<>> ELSE <<UpperOf(Head(s))>> \o ToUpperCase(Tail(s))

\* s.replace(/[class]/g, by) for a one-character replacement
RECURSIVE ReplaceAll(_, _, _)
ReplaceAll(s, class, by) ==
  IF s = <<>> THEN <<>>
  ELSE <<IF Head(s) \in class THEN by ELSE Head(s)>> \o ReplaceAll(Tail(s), class, by)

\* t of extractDateFromOCR: text.toUpperCase().replace(/[|Il]/g,'1').replace(/O/g,'0')
Normalise(text) ==
  ReplaceAll(ReplaceAll(ToUpperCase(text), {"|", "I", "l"}, "1"), {"O"}, "0")

\* the class \w
WordChar == Digit \cup Upper \cup Lower \cup {"_"}

\* \b at the 0-based offset at: a word character on exactly one side
AtBoundary(s, at) ==
  (at > 0 /\ s[at] \in WordChar) # (at < Len(s) /\ s[at + 1] \in WordChar)

NonZeroDigit == Digit \ {"0"}

\* (0?[1-9]|1[0-2]) matches the n characters at offset at
MonthGroup(s, at, n) ==
  /\ at + n <= Len(s)
  /\ \/ n = 1 /\ s[at + 1] \in NonZeroDigit
     \/ n = 2 /\ s[at + 1] = "0" /\ s[at + 2] \in NonZeroDigit
     \/ n = 2 /\ s[at + 1] = "1" /\ s[at + 2] \in {"0", "1", "2"}

\* (0?[1-9]|[12]\d|3[01]) matches the n characters at offset at
DayGroup(s, at, n) ==
  /\ at + n <= Len(s)
  /\ \/ n = 1 /\ s[at + 1] \in NonZeroDigit
     \/ n = 2 /\ s[at + 1] = "0" /\ s[at + 2] \in NonZeroDigit
     \/ n = 2 /\ s[at + 1] \in {"1", "2"} /\ s[at + 2] \in Digit
     \/ n = 2 /\ s[at + 1] = "3" /\ s[at + 2] \in {"0", "1"}

\* (20\d{2}) matches at offset at
YearGroup(s, at) == StartsWithAt(s, <<"2", "0">>, at) /\ AllInClassAt(s, at + 2, 2, Digit)

\* one character of class at offset at
ClassAt(s, at, class) == at < Len(s) /\ s[at + 1] \in class

\* the class [\/\-\.]
DateSep == {"/", "-", "."}

\* the class [\/\-]
MonthSep == {"/", "-"}

\* the keys of MONTHS in the order of their values 1..12
MONTHS ==
  <<<<"J", "A", "N">>,
    <<"F", "E", "B">>,
    <<"M", "A", "R">>,
    <<"A", "P", "R">>,
    <<"M", "A", "Y">>,
    <<"J", "U", "N">>,
    <<"J", "U", "L">>,
    <<"A", "U", "G">>,
    <<"S", "E", "P">>,
    <<"O", "C", "T">>,
    <<"N", "O", "V">>,
    <<"D", "E", "C">>>>

\* the values of MONTHS whose key stands at offset at (none or one)
MonthNameAt(s, at) == {i \in 1..12 : StartsWithAt(s, MONTHS[i], at)}

\* the leftmost of a set of matches
Leftmost(ms) == CHOOSE m \in ms : \A x \in ms : m.at <= x.at

\* String(n).padStart(2,'0') and s.padStart(2,'0')
Pad2(s) == PadStart(s, 2)

IsoOf(y, m, d) == y \o <<"-">> \o m \o <<"-">> \o d

\* `${yr}-${String(mo).padStart(2,'0')}-${String(last).padStart(2,'0')}` with
\* last = new Date(yr, mo, 0).getDate()
LastDayIso(yr, mo) ==
  IsoOf(NumToString(yr), Pad2(NumToString(mo)), Pad2(NumToString(LastDayOfMonth(yr, mo))))

\* pattern 1, YYYY-MM-DD:
\* /\b(20\d{2})[\/\-\.](0?[1-9]|1[0-2])[\/\-\.](0?[1-9]|[12]\d|3[01])\b/
Pattern1(t) ==
  LET ms == {m \in [at : 0..Len(t), n2 : {1, 2}, n3 : {1, 2}] :
               /\ AtBoundary(t, m.at)
               /\ YearGroup(t, m.at)
               /\ ClassAt(t, m.at + 4, DateSep)
               /\ MonthGroup(t, m.at + 5, m.n2)
               /\ ClassAt(t, m.at + 5 + m.n2, DateSep)
               /\ DayGroup(t, m.at + 6 + m.n2, m.n3)
               /\ AtBoundary(t, m.at + 6 + m.n2 + m.n3)}
  IN  IF ms = {} THEN Absent
      ELSE LET m == Leftmost(ms)
           IN  IsoOf(Substring(t, m.at, m.at + 4),
                     Pad2(Substring(t, m.at + 5, m.at + 5 + m.n2)),
                     Pad2(Substring(t, m.at + 6 + m.n2, m.at + 6 + m.n2 + m.n3)))

\* pattern 2, DD/MM/YYYY:
\* /\b(0?[1-9]|[12]\d|3[01])[\/\-\.](0?[1-9]|1[0-2])[\/\-\.](20\d{2})\b/
Pattern2(t) ==
  LET ms == {m \in [at : 0..Len(t), n1 : {1, 2}, n2 : {1, 2}] :
               /\ AtBoundary(t, m.at)
               /\ DayGroup(t, m.at, m.n1)
               /\ ClassAt(t, m.at + m.n1, DateSep)
               /\ MonthGroup(t, m.at + m.n1 + 1, m.n2)
               /\ ClassAt(t, m.at + m.n1 + 1 + m.n2, DateSep)
               /\ YearGroup(t, m.at + m.n1 + m.n2 + 2)
               /\ AtBoundary(t, m.at + m.n1 + m.n2 + 6)}
  IN  IF ms = {} THEN Absent
      ELSE LET m == Leftmost(ms)
               p2 == m.at + m.n1 + 1
               p3 == p2 + m.n2 + 1
           IN  IsoOf(Substring(t, p3, p3 + 4),
                     Pad2(Substring(t, p2, p2 + m.n2)),
                     Pad2(Substring(t, m.at, m.at + m.n1)))

\* pattern 3, MM/YYYY: /\b(0?[1-9]|1[0-2])[\/\-](20\d{2})\b/
Pattern3(t) ==
  LET ms == {m \in [at : 0..Len(t), n1 : {1, 2}] :
               /\ AtBoundary(t, m.at)
               /\ MonthGroup(t, m.at, m.n1)
               /\ ClassAt(t, m.at + m.n1, MonthSep)
               /\ YearGroup(t, m.at + m.n1 + 1)
               /\ AtBoundary(t, m.at + m.n1 + 5)}
  IN  IF ms = {} THEN Absent
      ELSE LET m == Leftmost(ms)
               yr == ParseInt(Substring(t, m.at + m.n1 + 1, m.at + m.n1 + 5))
               mo == ParseInt(Substring(t, m.at, m.at + m.n1))
           IN  LastDayIso(yr, mo)

\* pattern 4, MM/YY: /\b(0?[1-9]|1[0-2])[\/\-](\d{2})\b/
Pattern4(t) ==
  LET ms == {m \in [at : 0..Len(t), n1 : {1, 2}] :
               /\ AtBoundary(t, m.at)
               /\ MonthGroup(t, m.at, m.n1)
               /\ ClassAt(t, m.at + m.n1, MonthSep)
               /\ AllInClassAt(t, m.at + m.n1 + 1, 2, Digit)
               /\ AtBoundary(t, m.at + m.n1 + 3)}
  IN  IF ms = {} THEN Absent
      ELSE LET m == Leftmost(ms)
               yr == Num(2000 + ParseInt(Substring(t, m.at + m.n1 + 1, m.at + m.n1 + 3)).v)
               mo == ParseInt(Substring(t, m.at, m.at + m.n1))
           IN  LastDayIso(yr, mo)

\* pattern 5, MON YYYY: /\b(JAN|...|DEC)\s*(20\d{2})\b/
Pattern5(t) ==
  LET ms == {m \in [at : 0..Len(t), mon : 1..12] :
               /\ AtBoundary(t, m.at)
               /\ m.mon \in MonthNameAt(t, m.at)
               /\ YearGroup(t, m.at + 3 + RunLength(t, m.at + 3, WhiteSpace))
               /\ AtBoundary(t, m.at + 7 + RunLength(t, m.at + 3, WhiteSpace))}
  IN  IF ms = {} THEN Absent
      ELSE LET m == Leftmost(ms)
               p2 == m.at + 3 + RunLength(t, m.at + 3, WhiteSpace)
           IN  LastDayIso(ParseInt(Substring(t, p2, p2 + 4)), Num(m.mon))

\* pattern 6, DD MON YYYY: /\b(\d{1,2})\s*(JAN|...|DEC)\s*(20\d{2})\b/
Pattern6(t) ==
  LET monAt(m) == m.at + m.n1 + RunLength(t, m.at + m.n1, WhiteSpace)
      yearAt(m) == monAt(m) + 3 + RunLength(t, monAt(m) + 3, WhiteSpace)
      ms == {m \in [at : 0..Len(t), n1 : {1, 2}, mon : 1..12] :
               /\ AtBoundary(t, m.at)
               /\ AllInClassAt(t, m.at, m.n1, Digit)
               /\ m.mon \in MonthNameAt(t, monAt(m))
               /\ YearGroup(t, yearAt(m))
               /\ AtBoundary(t, yearAt(m) + 4)}
  IN  IF ms = {} THEN Absent
      ELSE LET m == Leftmost(ms)
           IN  IsoOf(Substring(t, yearAt(m), yearAt(m) + 4),
                     Pad2(NumToString(Num(m.mon))),
                     Pad2(Substring(t, m.at, m.at + m.n1)))

\* the offsets at which (?:EXP|BB|EXPIRY|BEST\s*BEFORE|USE\s*BY) can end when
\* it starts at offset at
LabelEnds(t, at) ==
  LET spaced(a, b) ==
        IF StartsWithAt(t, a, at)
              /\ StartsWithAt(t, b, at + Len(a) + RunLength(t, at + Len(a), WhiteSpace))
        THEN {at + Len(a) + RunLength(t, at + Len(a), WhiteSpace) + Len(b)}
        ELSE {}
      plain(a) == IF StartsWithAt(t, a, at) THEN {at + Len(a)} ELSE {}
  IN  plain(<<"E", "X", "P">>)
        \cup plain(<<"B", "B">>)
        \cup plain(<<"E", "X", "P", "I", "R", "Y">>)
        \cup spaced(<<"B", "E", "S", "T">>, <<"B", "E", "F", "O", "R", "E">>)
        \cup spaced(<<"U", "S", "E">>, <<"B", "Y">>)

\* pattern 7, a label and YYMMDD:
\* /(?:EXP|BB|EXPIRY|BEST\s*BEFORE|USE\s*BY)[:\s]*(\d{6})/
Pattern7(t) ==
  LET digitsAt(e) == e + RunLength(t, e, WhiteSpace \cup {":"})
      ms == {m \in [at : 0..Len(t), end : 0..Len(t)] :
               /\ m.end \in LabelEnds(t, m.at)
               /\ AllInClassAt(t, digitsAt(m.end), 6, Digit)}
  IN  IF ms = {} THEN Absent
      ELSE LET m == Leftmost(ms)
               g == Substring(t, digitsAt(m.end), digitsAt(m.end) + 6)
               yr == Num(2000 + ParseInt(Substring(g, 0, 2)).v)
               mo == ParseInt(Substring(g, 2, 4))
               dd == ParseInt(Substring(g, 4, 6))
               day == IF dd.v = 0 THEN LastDayOfMonth(yr, mo) ELSE dd
           IN  IsoOf(NumToString(yr), Pad2(NumToString(mo)), Pad2(NumToString(day)))

\* the calendar year of the day n days after 1970-01-01
YearOfDay(n) ==
  CHOOSE y \in 1969..2101 : DayNumber(y, 1, 1) <= n /\ n < DayNumber(y + 1, 1, 1)

\* d.getFullYear(): the year of the local day of the time t
GetFullYear(t, tz) == YearOfDay(LocalDay(t, tz))

\* !isNaN(d) && d.getFullYear() >= 2020 && d.getFullYear() <= 2040 for d = new Date(iso)
Sane(iso, tz) ==
  LET d == DateParse(iso)
  IN  ~d.nan /\ GetFullYear(d.v, tz) >= 2020 /\ GetFullYear(d.v, tz) <= 2040

\* the results fn(m) of the seven patterns on t, Absent where re does not match
patterns(t) ==
  <<Pattern1(t), Pattern2(t), Pattern3(t), Pattern4(t), Pattern5(t), Pattern6(t), Pattern7(t)>>

\* extractDateFromOCR(text) in a runtime of time zone tz; Absent is null
extractDateFromOCR(text, tz) ==
  LET isos == patterns(Normalise(text))
      hits == {k \in 1..7 : isos[k] # Absent /\ Sane(isos[k], tz)}
  IN  IF hits = {} THEN Absent ELSE isos[SetMin(hits)]

\* ------------------------------------------------------------------------
\* State
\* ------------------------------------------------------------------------
VARIABLES
  raw,      \* the scanned text
  gs1,      \* result of GS1.parse(raw)
  ubp,      \* result of UnifiedBarcodeParser.parse(raw)
  fmt,      \* result of UnifiedBarcodeParser.detectFormat(raw)
  done,     \* the operations that have run on raw
  master,       \* the master list the index was last built from
  masterIndex,  \* S.masterIndex: key -> product name
  masterRMS,    \* S.masterRMS: key -> RMS code
  found,        \* the last call of Master.find: its argument and its result
  now,          \* the time of the runtime clock, hours since 1970-01-01T00:00Z
  tz,           \* the time zone of the runtime, hours east of UTC
  isoDate,      \* an expiry date as the records hold it
  status,       \* result of GS1.status(isoDate)
  expiryClass,  \* class of calculateExpiryStatus(isoDate)
  text,         \* the text recognised in a photo of the label
  extracted,    \* result of extractDateFromOCR(text)
  store,        \* the object store 'master': barcode -> item
  history,      \* the object store 'history': id -> saved record
  nextId,       \* the key generator of 'history'
  clock,        \* Date.now(), one tick per scan
  currentEntry, \* S.currentEntry: the draft in the product panel, or NoEntry
  ppExpiry,     \* the value of the form field ppExpiry
  saves,        \* the calls of saveCurrentEntry that await DB.add, oldest first
  ocrRun,       \* the call of runOCR that awaits the recognition, or NoRun
  catalogOp,    \* the uploadMaster / resetMaster / restoreBackup call in flight
  refreshing,   \* a refreshAll of the history handlers awaits its stores
  building,     \* Master.build in its loop: the items it has still to register
  ocrDates,     \* the photos taken: recognised text -> result of extractDateFromOCR
  editing       \* the call of saveEdit between its DB.get and its DB.put, or NoEdit

parserVars == <<raw, gs1, ubp, fmt, done>>

catalogVars == <<master, masterIndex, masterRMS, found>>

statusVars == <<now, tz, isoDate, status, expiryClass>>

ocrVars == <<text, extracted>>

appVars ==
  <<store, history, nextId, clock, currentEntry, ppExpiry, saves, ocrRun, catalogOp,
    refreshing, building, ocrDates, editing>>

vars == <<parserVars, catalogVars, statusVars, ocrVars, appVars>>

\* no call of Master.find yet
NotFound == [gtin |-> Absent, match |-> Match("", "", "NONE")]

\* the master index before the first Master.build
CatalogIdle ==
  /\ master = <<>>
  /\ masterIndex = EmptyMap
  /\ masterRMS = EmptyMap
  /\ found = NotFound

\* no expiry date classified
StatusIdle ==
  /\ now = 0
  /\ tz = 0
  /\ isoDate = <<>>
  /\ status = ""
  /\ expiryClass = ""

\* no text recognised
OcrIdle ==
  /\ text = <<>>
  /\ extracted = Absent

\* S.currentEntry = null
NoEntry == [ts |-> 0]

\* no call of runOCR in flight
NoRun == [draft |-> 0]

\* no call of saveEdit in flight
NoEdit == [id |-> 0]

\* Master.build is not running
NoBuild == [running |-> FALSE, left |-> <<>>]

\* no catalog operation in flight
Idle == [op |-> "idle", pc |-> "", append |-> FALSE, items |-> <<>>, records |-> <<>>]

\* the application after init() on a fresh installation: both stores empty, no
\* draft, no handler in flight
Fresh ==
  /\ store = EmptyMap
  /\ history = EmptyMap
  /\ nextId = 1
  /\ clock = 1
  /\ currentEntry = NoEntry
  /\ ppExpiry = <<>>
  /\ saves = <<>>
  /\ ocrRun = NoRun
  /\ catalogOp = Idle
  /\ refreshing = FALSE
  /\ building = NoBuild
  /\ editing = NoEdit

\* the application idle, no photo taken
AppIdle == Fresh /\ ocrDates = EmptyMap

Init ==
  /\ raw \in Inputs
  /\ gs1 = GS1Result(<<>>)
  /\ ubp = UnifiedResult
  /\ fmt = Absent
  /\ done = {}
  /\ CatalogIdle
  /\ StatusIdle
  /\ OcrIdle
  /\ AppIdle

\* GS1.parse(raw)
GS1Parse ==
  /\ "GS1.parse" \notin done
  /\ gs1' = GS1_parse(raw)
  /\ done' = done \cup {"GS1.parse"}
  /\ UNCHANGED <<raw, ubp, fmt>>
  /\ UNCHANGED <<catalogVars, statusVars, ocrVars, appVars>>

\* new UnifiedBarcodeParser().parse(raw)
UnifiedParse ==
  /\ "parse" \notin done
  /\ ubp' = parse(raw)
  /\ done' = done \cup {"parse"}
  /\ UNCHANGED <<raw, gs1, fmt>>
  /\ UNCHANGED <<catalogVars, statusVars, ocrVars, appVars>>

\* new UnifiedBarcodeParser().detectFormat(raw)
DetectFormat ==
  /\ "detectFormat" \notin done
  /\ fmt' = detectFormat(raw)
  /\ done' = done \cup {"detectFormat"}
  /\ UNCHANGED <<raw, gs1, ubp>>
  /\ UNCHANGED <<catalogVars, statusVars, ocrVars, appVars>>

Next == GS1Parse \/ UnifiedParse \/ DetectFormat

Spec == Init /\ [][Next]_vars

TypeOK ==
  /\ raw \in Inputs
  /\ done \subseteq {"GS1.parse", "parse", "detectFormat", "GS1.status",
                      "calculateExpiryStatus", "extractDateFromOCR"}
  /\ gs1.isGS1 \in BOOLEAN

\* ------------------------------------------------------------------------
\* Vocabulary of the properties
\* ------------------------------------------------------------------------
ParsedGS1 == "GS1.parse" \in done

ParsedUnified == "parse" \in done

Detected == "detectFormat" \in done

AllDigits(s) == \A i \in 1..Len(s) : s[i] \in Digit

CountDigits(s) == Cardinality({i \in 1..Len(s) : s[i] \in Digit})

Is14Digits(s) == Len(s) = 14 /\ AllDigits(s)

\* the text GS1.parse matches against
Cleaned(s) == Strip(Trim(s), CrLfTab)

\* 1-based positions of s at which an occurrence of tag ends
TagEnds(s, tag) ==
  {p \in Len(tag)..Len(s) : SubSeq(s, p - Len(tag) + 1, p) = tag}

\* the n digits after the first occurrence of tag that n digits follow
FixedField(s, tag, n) ==
  LET ps == {p \in TagEnds(s, tag) :
               p + n <= Len(s) /\ \A i \in (p + 1)..(p + n) : s[i] \in Digit}
  IN  IF ps = {} THEN Absent ELSE SubSeq(s, SetMin(ps) + 1, SetMin(ps) + n)

\* the text after the first occurrence of tag that a character other than "("
\* follows, up to the next "(" or the end of s
TextField(s, tag) ==
  LET ps == {p \in TagEnds(s, tag) : p < Len(s) /\ s[p + 1] # "("}
  IN  IF ps = {} THEN Absent
      ELSE LET p == SetMin(ps)
               q == SetMin({k \in (p + 1)..Len(s) : k = Len(s) \/ s[k + 1] = "("})
           IN  SubSeq(s, p + 1, q)

\* the number written by two digit characters
TwoDigits(s) == 10 * DigitVal(s[1]) + DigitVal(s[2])

MonthOf(token) == TwoDigits(SubSeq(token, 3, 4))

DayOf(token) == TwoDigits(SubSeq(token, 5, 6))

MonthLength(y, m) ==
  CASE m \in {1, 3, 5, 7, 8, 10, 12} -> 31
    [] m \in {4, 6, 9, 11} -> 30
    [] m = 2 -> IF y % 4 = 0 /\ (y % 100 # 0 \/ y % 400 = 0) THEN 29 ELSE 28

TwoChars(n) == <<DigitChar(n \div 10), DigitChar(n % 10)>>

\* YYYY-MM-DD of the date the GS1 convention gives a YYMMDD token with MM in 01..12
CalendarDate(token) ==
  LET y == 2000 + TwoDigits(SubSeq(token, 1, 2))
      m == MonthOf(token)
      d == IF DayOf(token) = 0 THEN MonthLength(y, m) ELSE DayOf(token)
  IN  <<"2", "0">> \o SubSeq(token, 1, 2) \o <<"-">> \o TwoChars(m) \o <<"-">> \o TwoChars(d)

IsToken(t) == t # Absent /\ Len(t) = 6 /\ AllDigits(t)

ValidMonth(t) == MonthOf(t) \in 1..12

CappedPrintable(t) == Len(t) <= 20 /\ \A i \in 1..Len(t) : t[i] \in PrintableASCII

ExampleParenthesized == Parenthesized(G1, <<"2", "6", "0", "6", "3", "0">>, <<"B", "A", "T", "C", "H", "1">>, <<"S", "E", "R", "9", "9">>)

\* ------------------------------------------------------------------------
\* C1
\* ------------------------------------------------------------------------
\* non-empty printable values with neither "(" nor the separator
PlainTexts ==
  {t \in Texts : t # <<>> /\ \A i \in 1..Len(t) : t[i] \in PrintableASCII \ {"("}}

\* GS1.parse gives 01g17e10b<GS>21s the fields it gives (01)g(17)e(10)b(21)s
C1_GS1Agrees ==
  ParsedGS1 =>
    \A g \in Gtins, e \in Dates, b \in PlainTexts, s \in PlainTexts :
      raw = Positional(g, e, b, s, <<GS>>) =>
        LET p == GS1_parse(Parenthesized(g, e, b, s))
        IN  /\ gs1.gtin = p.gtin /\ gs1.expiry = p.expiry /\ gs1.expiryISO = p.expiryISO
            /\ gs1.batch = p.batch /\ gs1.serial = p.serial

\* UnifiedBarcodeParser.parse gives both strings the same fields
C1_UnifiedAgrees ==
  ParsedUnified =>
    \A g \in Gtins, e \in Dates, b \in PlainTexts, s \in PlainTexts :
      raw = Positional(g, e, b, s, <<GS>>) =>
        LET p == parse(Parenthesized(g, e, b, s))
        IN  /\ ubp.gtin = p.gtin /\ ubp.expiryRaw = p.expiryRaw /\ ubp.expiry = p.expiry
            /\ ubp.batch = p.batch /\ ubp.serial = p.serial

\* C1: for every 14-digit GTIN g, 6-digit expiry token e, and non-empty printable
\* batch b and serial s without "(" or separator, parsing 01g17e10b<GS>21s yields
\* the same gtin, expiry token, expiry date, batch and serial as parsing
\* (01)g(17)e(10)b(21)s.
C1_PositionalEqualsParenthesized == C1_GS1Agrees /\ C1_UnifiedAgrees

\* ------------------------------------------------------------------------
\* C2
\* ------------------------------------------------------------------------
T01 == <<"(", "0", "1", ")">>

T17 == <<"(", "1", "7", ")">>

T10 == <<"(", "1", "0", ")">>

T21 == <<"(", "2", "1", ")">>

\* 20YY-MM-DD, the date of a token whose month and day are both written out
WrittenDate(t) ==
  <<"2", "0">> \o SubSeq(t, 1, 2) \o <<"-">> \o SubSeq(t, 3, 4) \o <<"-">> \o SubSeq(t, 5, 6)

FullyWritten(t) == ValidMonth(t) /\ DayOf(t) >= 1

\* the parenthesised branch of GS1.parse, batch and serial as after(text)
GS1FieldsAre(after(_)) ==
  (ParsedGS1 /\ Includes(Cleaned(raw), <<"(">>)) =>
    LET c == Cleaned(raw)
        g == FixedField(c, T01, 14)
        e == FixedField(c, T17, 6)
        b == TextField(c, T10)
        s == TextField(c, T21)
    IN  /\ g # Absent => gs1.gtin = g
        /\ e # Absent => gs1.expiry = e
        /\ (e # Absent /\ FullyWritten(e)) => gs1.expiryISO = WrittenDate(e)
        /\ b # Absent => gs1.batch = after(b)
        /\ s # Absent => gs1.serial = after(s)

\* (01)00012345678905(17)260630(10)BATCH1(21)SER99
ExampleIsParsed ==
  raw = ExampleParenthesized =>
    /\ ParsedGS1 =>
         /\ gs1.gtin = G1 /\ gs1.expiry = <<"2", "6", "0", "6", "3", "0">>
         /\ gs1.expiryISO = <<"2", "0", "2", "6", "-", "0", "6", "-", "3", "0">>
         /\ gs1.batch = <<"B", "A", "T", "C", "H", "1">>
         /\ gs1.serial = <<"S", "E", "R", "9", "9">>
    /\ ParsedUnified =>
         /\ ubp.gtin = G1 /\ ubp.expiryRaw = <<"2", "6", "0", "6", "3", "0">>
         /\ ubp.expiry = <<"2", "0", "2", "6", "-", "0", "6", "-", "3", "0">>
         /\ ubp.batch = <<"B", "A", "T", "C", "H", "1">>
         /\ ubp.serial = <<"S", "E", "R", "9", "9">>

UnifiedFieldsAre ==
  (ParsedUnified /\ ubp.format = F_GS1_PARENTHESIZED) =>
    LET g == FixedField(raw, T01, 14)
        e == FixedField(raw, T17, 6)
        b == TextField(raw, T10)
        s == TextField(raw, T21)
    IN  /\ g # Absent => ubp.gtin = g
        /\ e # Absent => ubp.expiryRaw = e
        /\ (e # Absent /\ FullyWritten(e)) => ubp.expiry = WrittenDate(e)
        /\ b # Absent => ubp.batch = Trim(b)
        /\ s # Absent => ubp.serial = Trim(s)

PrintableCapped(t) == SubSeq(Trim(Keep(t, PrintableASCII)), 1, Min(20, Len(Trim(Keep(t, PrintableASCII)))))

\* C2 as stated: in parenthesized mode the gtin is the 14 digits after "(01)", the
\* expiry token the 6 digits after "(17)" and the expiry date their date, and the
\* batch / serial is the text after "(10)" / "(21)" up to the next "(" or the end,
\* trimmed of surrounding white space, whichever other fields are present.
C2_FieldsAsStated == GS1FieldsAre(Trim) /\ UnifiedFieldsAre /\ ExampleIsParsed

\* C2 amended: as C2, and in GS1.parse the batch / serial text is also stripped of
\* the characters outside printable ASCII and cut to its first 20 characters.
C2_FieldsIndependent == GS1FieldsAre(PrintableCapped) /\ UnifiedFieldsAre /\ ExampleIsParsed

\* a scan without expiry, its fields in the opposite order, parsed by both parsers
C2_Witness ==
  /\ ParsedGS1 /\ ParsedUnified
  /\ raw = ParenthesizedReversed(G1, Absent, <<"B", "A", "T", "C", "H", "1">>, <<" ", "A", "1", " ">>)
  /\ gs1.gtin = G1 /\ gs1.batch = <<"B", "A", "T", "C", "H", "1">> /\ gs1.serial = <<"A", "1">> /\ gs1.expiry = <<>>
  /\ ubp.gtin = G1 /\ ubp.batch = <<"B", "A", "T", "C", "H", "1">> /\ ubp.serial = <<"A", "1">> /\ ubp.expiry = Absent

\* ------------------------------------------------------------------------
\* C3
\* ------------------------------------------------------------------------
\* C3: whenever the parser treats the input as a GS1 variant, the gtin is absent
\* or empty or a string of exactly 14 decimal digits.
C3_GS1GtinIs14Digits ==
  /\ (ParsedGS1 /\ gs1.isGS1) => (gs1.gtin = <<>> \/ Is14Digits(gs1.gtin))
  /\ (ParsedUnified /\ ubp.format \in {F_GS1_PARENTHESIZED, F_GS1_FULL}) =>
       (ubp.gtin = Absent \/ Is14Digits(ubp.gtin))

\* ------------------------------------------------------------------------
\* C4
\* ------------------------------------------------------------------------
SimpleFormats == {F_GTIN14, F_EAN13, F_LEGACY12, F_EAN8}

\* a scan of digits, possibly grouped by hyphens or surrounded by blanks
PlainNumeric(s) == s # <<>> /\ \A i \in 1..Len(s) : s[i] \in Digit \cup {" ", "-"}

ScannedDigits(s) == SelectSeq(s, LAMBDA c : c \in Digit)

ZeroPadded14(d) == Repeat("0", 14 - Len(d)) \o d

AITokens == {<<"1", "7">>, <<"2", "1">>, <<"1", "0">>}

HasToken(s) == \E t \in AITokens : TagEnds(s, t) # {}

\* the test detect makes for the positional shape: an AI token anywhere in raw
QualifiesPositional(s) ==
  /\ Len(s) > 16 /\ SubSeq(s, 1, 2) = <<"0", "1">>
  /\ HasToken(s)

ByDigitCount(n) ==
  CASE n = 14 -> F_GTIN14
    [] n = 13 -> F_EAN13
    [] n = 12 -> F_LEGACY12
    [] n = 8 -> F_EAN8
    [] OTHER -> F_UNKNOWN

C6_PositionalIffTokenInRemainder ==
  (Detected /\ TagEnds(raw, T01) = {}) =>
    (fmt = F_GS1_FULL <=>
       /\ Len(raw) > 16 /\ SubSeq(raw, 1, 2) = <<"0", "1">>
       /\ HasToken(SubSeq(raw, 17, Len(raw))))

EightDigits(s) == Len(s) = 8 /\ AllDigits(s)

\* C7 as stated: an 8-digit numeric scan yields format UNKNOWN.
C7_EightDigitsUnknown ==
  (ParsedUnified /\ EightDigits(raw)) => ubp.format = F_UNKNOWN

\* C7 amended: an 8-digit numeric scan yields format EAN8, parsed as a simple code
\* (code the 8 digits, gtin null, no error), and does so without raising.
C7_EightDigitsEAN8 ==
  /\ (ParsedUnified /\ EightDigits(raw)) =>
       /\ ubp.format = F_EAN8 /\ ubp.code = raw /\ ubp.gtin = Absent
       /\ ubp.error = Absent
  /\ (Detected /\ EightDigits(raw)) => fmt = F_EAN8

\* an 8-digit scan, parsed
C7_Witness ==
  /\ ParsedUnified
  /\ raw = <<"6", "2", "9", "1", "1", "0", "7", "4">>
  /\ ubp.format = F_EAN8

\* ------------------------------------------------------------------------
\* C8, C9, C10
\* ------------------------------------------------------------------------
\* C8: every extracted YYMMDD token (expiry and production date) with MM in 01..12
\* becomes the date 20YY-MM-DD, day 00 becoming the last day of the month; no
\* resulting date has day 00.
C8_DayZeroIsLastDay ==
  /\ (ParsedGS1 /\ IsToken(gs1.expiry) /\ ValidMonth(gs1.expiry)) =>
       gs1.expiryISO = CalendarDate(gs1.expiry)
  /\ (ParsedUnified /\ IsToken(ubp.expiryRaw) /\ ValidMonth(ubp.expiryRaw)) =>
       ubp.expiry = CalendarDate(ubp.expiryRaw)
  /\ (ParsedUnified /\ IsToken(ubp.productionDateRaw) /\ ValidMonth(ubp.productionDateRaw)) =>
       ubp.productionDate = CalendarDate(ubp.productionDateRaw)

\* C9: an extracted token whose MM is outside 01..12 leaves the expiry date (or
\* production date) absent.
C9_InvalidMonthRejected ==
  /\ (ParsedGS1 /\ IsToken(gs1.expiry) /\ ~ValidMonth(gs1.expiry)) => gs1.expiryISO = <<>>
  /\ (ParsedUnified /\ IsToken(ubp.expiryRaw) /\ ~ValidMonth(ubp.expiryRaw)) =>
       ubp.expiry = Absent
  /\ (ParsedUnified /\ IsToken(ubp.productionDateRaw) /\ ~ValidMonth(ubp.productionDateRaw)) =>
       ubp.productionDate = Absent

\* C10: in every parsed record batch and serial are at most 20 characters long and
\* consist of printable ASCII characters only.
C10_BatchSerialCappedPrintable ==
  /\ ParsedGS1 => (CappedPrintable(gs1.batch) /\ CappedPrintable(gs1.serial))
  /\ ParsedUnified =>
       /\ ubp.batch # Absent => CappedPrintable(ubp.batch)
       /\ ubp.serial # Absent => CappedPrintable(ubp.serial)

\* ------------------------------------------------------------------------
\* The master index: Master.build on a master list, Master.find on a GTIN
\* ------------------------------------------------------------------------
\* longest master list built
MaxEntries == 2

\* a 13-digit barcode
B13 == <<"6", "2", "9", "1", "1", "0", "7", "4", "3", "9", "3", "5", "8">>

\* an item of the master list
Item(barcode, name, rms) == [barcode |-> barcode, name |-> name, rms |-> rms]

\* items: two that claim the same barcode, the first without an RMS code; an
\* 8-digit barcode equal to the suffix of B13; a 7-digit barcode; the 14-digit
\* form of B13 written with separators and without a name; a 13-digit barcode
\* with leading zeros
Items ==
  {Item(B13, "Zyrtec", ""),
   Item(B13, "Cetirizine", "R2"),
   Item(<<"0", "7", "4", "3", "9", "3", "5", "8">>, "Suffix8", "R3"),
   Item(<<"1", "2", "3", "4", "5", "6", "7">>, "Short7", "R4"),
   Item(<<"0", "6", "2", "9", "-", "1", "1", "0", "7", "-", "4", "3", "9", "3", "5", "8">>, "", "R5"),
   Item(<<"0", "0", "0", "0", "0", "0", "7", "4", "3", "9", "3", "5", "8">>, "Padded", "R6")}

\* the master lists
Catalogs == UNION {[1..n -> Items] : n \in 0..MaxEntries}

\* the arguments of Master.find
Queries ==
  {<<>>,
   B13,
   <<"0", "6", "2", "9", "1", "1", "0", "7", "4", "3", "9", "3", "5", "8">>,
   <<"0", "0", "6", "2", "9", "1", "1", "0", "7", "4", "3", "9", "3", "5", "8">>,
   <<"0", "7", "4", "3", "9", "3", "5", "8">>,
   <<"0", "0", "0", "0", "0", "0", "0", "7", "4", "3", "9", "3", "5", "8">>,
   <<"0", "0", "0", "0", "0", "0", "0", "1", "2", "3", "4", "5", "6", "7">>,
   <<"1", "2", "3", "4", "5", "6", "7">>,
   <<"9", "9", "9", "9", "9", "9", "9", "9", "9", "9", "9", "9", "9", "9">>,
   <<"0">>}

ParserIdle ==
  /\ raw = <<>>
  /\ gs1 = GS1Result(<<>>)
  /\ ubp = UnifiedResult
  /\ fmt = Absent
  /\ done = {}

InitCatalog == ParserIdle /\ CatalogIdle /\ StatusIdle /\ OcrIdle /\ AppIdle

\* the two maps of S
Index == [masterIndex |-> masterIndex, masterRMS |-> masterRMS]

\* Master.build(data)
Build(data) ==
  /\ master' = data
  /\ LET built == Master_build(data)
     IN  /\ masterIndex' = built.masterIndex
         /\ masterRMS' = built.masterRMS
  /\ found' = NotFound
  /\ UNCHANGED <<parserVars, statusVars, ocrVars, appVars>>

\* Master.find(gtin)
Find(gtin) ==
  /\ found' = [gtin |-> gtin, match |-> Master_find(Index, gtin)]
  /\ UNCHANGED <<master, masterIndex, masterRMS>>
  /\ UNCHANGED <<parserVars, statusVars, ocrVars, appVars>>

NextCatalog ==
  \/ \E data \in Catalogs : Build(data)
  \/ \E gtin \in Queries : Find(gtin)

SpecCatalog == InitCatalog /\ [][NextCatalog]_vars

\* ------------------------------------------------------------------------
\* Vocabulary of the catalog properties
\* ------------------------------------------------------------------------
\* Master.find has been called on the index as it is now
Looked == found.gtin # Absent

IsKey(k) == k \in DOMAIN masterIndex

\* what the index holds under key k, returned with confidence how
Stored(k, how) ==
  [name |-> masterIndex[k],
   rms |-> IF k \in DOMAIN masterRMS THEN masterRMS[k] ELSE "",
   how |-> how]

NoMatch == [name |-> "", rms |-> "", how |-> "NONE"]

\* gtin begins with a zero and something follows it
HasStrippedForm(gtin) == Len(gtin) >= 2 /\ gtin[1] = "0"

StrippedForm(gtin) == SubSeq(gtin, 2, Len(gtin))

\* the last 8 characters of gtin, all of it when it is shorter
Last8(gtin) == IF Len(gtin) <= 8 THEN gtin ELSE SubSeq(gtin, Len(gtin) - 7, Len(gtin))

StrippedHit(gtin) == HasStrippedForm(gtin) /\ IsKey(StrippedForm(gtin))

\* ------------------------------------------------------------------------
\* C11
\* ------------------------------------------------------------------------
\* C11: Master.find(gtin) answers from the first key present among gtin, gtin
\* without its single leading zero, and the last 8 digits of gtin: what the
\* index holds under gtin itself with confidence EXACT, what it holds under a
\* derived key with confidence PARTIAL, and NONE with an empty name and RMS
\* code when none of the keys is present or gtin is empty
C11_FindKeyOrder ==
  Looked =>
    LET gtin == found.gtin
    IN  found.match =
          IF gtin = <<>> THEN NoMatch
          ELSE IF IsKey(gtin) THEN Stored(gtin, "EXACT")
          ELSE IF StrippedHit(gtin) THEN Stored(StrippedForm(gtin), "PARTIAL")
          ELSE IF IsKey(Last8(gtin)) THEN Stored(Last8(gtin), "PARTIAL")
          ELSE NoMatch

\* the stripped form and the suffix of the GTIN are keys of two different
\* items, and the stripped form answers
C11_Witness ==
  /\ found.gtin = <<"0", "0", "6", "2", "9", "1", "1", "0", "7", "4", "3", "9", "3", "5", "8">>
  /\ ~IsKey(found.gtin)
  /\ StrippedHit(found.gtin)
  /\ IsKey(Last8(found.gtin))
  /\ masterIndex[Last8(found.gtin)] = "Suffix8"
  /\ found.match = [name |-> "Zyrtec", rms |-> "", how |-> "PARTIAL"]

\* ------------------------------------------------------------------------
\* C12
\* ------------------------------------------------------------------------
\* the index was built from one item whose barcode is 13 digits
SingleOf13 ==
  /\ Len(master) = 1
  /\ Len(master[1].barcode) = 13
  /\ \A k \in 1..13 : master[1].barcode[k] \in Digit

\* the keys a 13-digit barcode b is registered under
KeysOf13(b) == {b, <<"0">> \o b, Last8(b)}

\* the keys Master.find tries for gtin
QueryKeys(gtin) ==
  {gtin, Last8(gtin)} \cup (IF HasStrippedForm(gtin) THEN {StrippedForm(gtin)} ELSE {})

\* the item of a single-item master list, returned with confidence how
TheItem(how) == [name |-> master[1].name, rms |-> master[1].rms, how |-> how]

\* what the claim says of the padded form and of unrelated GTINs
SingleItemExactAndNone ==
  LET b == master[1].barcode
  IN  /\ found.gtin = <<"0">> \o b => found.match = TheItem("EXACT")
      /\ QueryKeys(found.gtin) \cap KeysOf13(b) = {} => found.match = NoMatch

\* C12 as stated: with the index built from a single item of 13-digit barcode
\* B, find on the 14-digit padded form of B returns the item with confidence
\* EXACT, find on just the last 8 digits of B returns it with confidence
\* PARTIAL, and find on a GTIN sharing no key with B returns NONE
C12_SuffixQueryPartial ==
  (Looked /\ SingleOf13) =>
    /\ SingleItemExactAndNone
    /\ found.gtin = Last8(master[1].barcode) => found.match = TheItem("PARTIAL")

\* C12 amended: the last 8 digits of B are themselves a key, so find on the
\* bare 8 digits returns the item with confidence EXACT; find on their 14-digit
\* zero-padded form returns it with confidence PARTIAL unless that form is the
\* padded form of B; the padded form of B is EXACT and an unrelated GTIN NONE
C12_SuffixQueryExact ==
  (Looked /\ SingleOf13) =>
    LET b == master[1].barcode
        padded8 == Repeat("0", 6) \o Last8(b)
    IN  /\ SingleItemExactAndNone
        /\ found.gtin = Last8(b) => found.match = TheItem("EXACT")
        /\ found.gtin = padded8 =>
             found.match = TheItem(IF padded8 = <<"0">> \o b THEN "EXACT" ELSE "PARTIAL")

\* find on the bare last 8 digits of the single 13-digit barcode
C12_Witness ==
  /\ SingleOf13
  /\ master[1].barcode = B13
  /\ found.gtin = <<"0", "7", "4", "3", "9", "3", "5", "8">>
  /\ found.match.name = "Zyrtec"

\* ------------------------------------------------------------------------
\* C13
\* ------------------------------------------------------------------------
\* the digits of the barcode of an item
ItemDigits(it) == SelectSeq(it.barcode, LAMBDA c : c \in Digit)

Skipped(it) == Len(ItemDigits(it)) < 8

\* digits zero-padded on the left to 14
Padded14(d) == IF Len(d) >= 14 THEN d ELSE Repeat("0", 14 - Len(d)) \o d

\* the four key forms of an item: its digits, their 14-digit padded form, the
\* padded form without its single leading zero, the last 8 digits of the
\* padded form
Forms(it) ==
  LET d == ItemDigits(it)
      p == Padded14(d)
  IN  {d, p, Last8(p)} \cup (IF p[1] = "0" THEN {SubSeq(p, 2, Len(p))} ELSE {})

Claims(it, k) == ~Skipped(it) /\ k \in Forms(it)

\* the first item of the master list, in list order, that claims key k
FirstClaimant(k) ==
  master[SetMin({i \in 1..Len(master) : Claims(master[i], k)})]

\* C13: after build every key resolves to the first item in list order that
\* claims it: the name and the RMS code the index holds under a key, and so
\* the name and the RMS code find returns, both come from that one item
C13_FirstEntryWins ==
  /\ \A k \in DOMAIN masterIndex :
       Stored(k, "EXACT") =
         [name |-> FirstClaimant(k).name, rms |-> FirstClaimant(k).rms, how |-> "EXACT"]
  /\ (Looked /\ found.match.how # "NONE") =>
       \E k \in QueryKeys(found.gtin) \cap DOMAIN masterIndex :
         /\ found.match.name = FirstClaimant(k).name
         /\ found.match.rms = FirstClaimant(k).rms

\* ------------------------------------------------------------------------
\* C14
\* ------------------------------------------------------------------------
\* C14: build skips the items whose barcode has fewer than 8 digits once its
\* non-digits are stripped, and registers every other item under exactly its
\* stripped digits, their 14-digit zero-padded form, that form without its
\* single leading zero when it begins with one, and the last 8 digits of that
\* form: the index has these keys and no others
C14_KeysAreTheFourForms ==
  /\ DOMAIN masterIndex =
       UNION {Forms(master[i]) : i \in {j \in 1..Len(master) : ~Skipped(master[j])}}
  /\ DOMAIN masterRMS \subseteq DOMAIN masterIndex

\* a 7-digit barcode is skipped and a 14-digit barcode written with
\* separators is registered under its three distinct forms
C14_Witness ==
  /\ Len(master) = 2
  /\ master[1].barcode = <<"1", "2", "3", "4", "5", "6", "7">>
  /\ master[2].barcode = <<"0", "6", "2", "9", "-", "1", "1", "0", "7", "-", "4", "3", "9", "3", "5", "8">>
  /\ DOMAIN masterIndex = {<<"0", "6", "2", "9", "1", "1", "0", "7", "4", "3", "9", "3", "5", "8">>, B13, <<"0", "7", "4", "3", "9", "3", "5", "8">>}

\* ------------------------------------------------------------------------
\* Expiry status: GS1.status and calculateExpiryStatus on a stored date
\* ------------------------------------------------------------------------
\* time zones of the runtime, hours east of UTC
TimeZones == {0 - 5, 0, 2}

\* clock readings: four times of day on 2025-12-31 and on 2026-01-01, UTC
Nows ==
  {24 * DayNumber(y[1], y[2], y[3]) + h :
     y \in {<<2025, 12, 31>>, <<2026, 1, 1>>}, h \in {0, 3, 12, 22}}

\* stored expiry dates: none, dates around 2026-01-01, dates 89 to 91 days
\* after it, a date a year after it, and a month 13 as GS1._expiry can write
ExpiryDates ==
  {<<>>,
   <<"2", "0", "2", "5", "-", "1", "2", "-", "3", "0">>,
   <<"2", "0", "2", "5", "-", "1", "2", "-", "3", "1">>,
   <<"2", "0", "2", "6", "-", "0", "1", "-", "0", "1">>,
   <<"2", "0", "2", "6", "-", "0", "1", "-", "0", "2">>,
   <<"2", "0", "2", "6", "-", "0", "3", "-", "0", "1">>,
   <<"2", "0", "2", "6", "-", "0", "3", "-", "3", "1">>,
   <<"2", "0", "2", "6", "-", "0", "4", "-", "0", "1">>,
   <<"2", "0", "2", "6", "-", "0", "4", "-", "0", "2">>,
   <<"2", "0", "2", "7", "-", "0", "1", "-", "0", "1">>,
   <<"2", "0", "2", "6", "-", "1", "3", "-", "3", "0">>}

InitStatus ==
  /\ ParserIdle
  /\ CatalogIdle
  /\ now \in Nows
  /\ tz \in TimeZones
  /\ isoDate \in ExpiryDates
  /\ status = ""
  /\ expiryClass = ""
  /\ OcrIdle
  /\ AppIdle

\* GS1.status(isoDate)
Status ==
  /\ "GS1.status" \notin done
  /\ status' = GS1_status(isoDate, now, tz)
  /\ done' = done \cup {"GS1.status"}
  /\ UNCHANGED <<raw, gs1, ubp, fmt, now, tz, isoDate, expiryClass>>
  /\ UNCHANGED <<catalogVars, ocrVars, appVars>>

\* calculateExpiryStatus(isoDate)
ExpiryStatus ==
  /\ "calculateExpiryStatus" \notin done
  /\ expiryClass' = calculateExpiryStatus(isoDate, now)
  /\ done' = done \cup {"calculateExpiryStatus"}
  /\ UNCHANGED <<raw, gs1, ubp, fmt, now, tz, isoDate, status>>
  /\ UNCHANGED <<catalogVars, ocrVars, appVars>>

NextStatus == Status \/ ExpiryStatus

SpecStatus == InitStatus /\ [][NextStatus]_vars

\* ------------------------------------------------------------------------
\* C15
\* ------------------------------------------------------------------------
\* isoDate names a day of the calendar
IsCalendarDate ==
  /\ IsISODate(isoDate)
  /\ ISOMonth(isoDate) \in 1..12
  /\ ISODay(isoDate) \in 1..DaysInMonth(ISOYear(isoDate), ISOMonth(isoDate))

\* whole days from today, the local calendar day of the clock, to isoDate
DaysLeft ==
  DayNumber(ISOYear(isoDate), ISOMonth(isoDate), ISODay(isoDate)) - LocalDay(now, tz)

\* the class the contract gives with the threshold of 90 days
Expected ==
  IF isoDate = <<>> THEN "UNKNOWN"
  ELSE IF DaysLeft < 0 THEN "EXPIRED"
  ELSE IF DaysLeft <= 90 THEN "EXPIRING"
  ELSE "OK"

\* the class of the contract a result of either classifier stands for
ClassOf(result) ==
  CASE result \in {"unknown", ""} -> "UNKNOWN"
    [] result = "expired" -> "EXPIRED"
    [] result \in {"expiring", "short-expiry", "medium-expiry"} -> "EXPIRING"
    [] result \in {"ok", "normal-expiry"} -> "OK"

\* C15: classify gives UNKNOWN for an absent date and otherwise, with d the
\* whole-day difference between the date and today, EXPIRED when d < 0,
\* EXPIRING when 0 <= d <= 90 and OK when d > 90 (on 2026-01-01: 2025-12-31
\* EXPIRED, 2026-03-01 EXPIRING, 2027-01-01 OK), in both classifiers
C15_WholeDayClassification ==
  (isoDate = <<>> \/ IsCalendarDate) =>
    /\ "GS1.status" \in done => ClassOf(status) = Expected
    /\ "calculateExpiryStatus" \in done => ClassOf(expiryClass) = Expected

\* ------------------------------------------------------------------------
\* Date recognition: extractDateFromOCR on the text of a label
\* ------------------------------------------------------------------------
\* years written on labels: inside, at the ends of, and just outside 2020..2040
OcrYears == {2019, 2020, 2026, 2040, 2041}

\* a day written before the month name, or none
DayPrefixes == {<<>>, <<"1", "5", " ">>, <<"1", " ">>, <<"2", "8", " ">>}

\* "MON YYYY" and "DD MON YYYY"
MonthTexts ==
  {d \o MONTHS[i] \o <<" ">> \o NatToString(y) :
     d \in DayPrefixes, i \in 1..12, y \in OcrYears}

Labels ==
  {<<"E", "X", "P">>,
   <<"B", "B">>,
   <<"E", "X", "P", "I", "R", "Y">>,
   <<"B", "E", "S", "T", " ", "B", "E", "F", "O", "R", "E">>,
   <<"U", "S", "E", " ", "B", "Y">>}

LabelSeps == {<<>>, <<" ">>, <<":", " ">>}

\* YYMMDD tokens: plain days, day 00, the first and the last day of the range
\* 2020..2040, the days just outside it, a month 13, a month 00
Tokens ==
  {<<"2", "6", "0", "6", "3", "0">>,
   <<"2", "6", "0", "6", "0", "0">>,
   <<"2", "4", "0", "2", "0", "0">>,
   <<"2", "0", "0", "1", "0", "1">>,
   <<"4", "0", "1", "2", "3", "1">>,
   <<"4", "1", "0", "1", "0", "1">>,
   <<"1", "9", "1", "2", "3", "1">>,
   <<"2", "6", "1", "3", "3", "0">>,
   <<"2", "6", "0", "0", "1", "5">>}

LabelTexts == {l \o s \o k : l \in Labels, s \in LabelSeps, k \in Tokens}

\* numeric notations, characters the recognition confuses, lower case, two
\* notations in one text, and texts without a date
OtherTexts ==
  {<<>>,
   <<" ", " ", " ">>,
   <<"2", "0", "2", "6", "-", "0", "6", "-", "3", "0">>,
   <<"2", "0", "2", "6", "/", "6", "/", "3">>,
   <<"2", "0", "2", "6", ".", "1", "2", ".", "3", "1">>,
   <<"3", "0", "/", "0", "6", "/", "2", "0", "2", "6">>,
   <<"1", "-", "2", "-", "2", "0", "2", "6">>,
   <<"0", "6", "/", "2", "0", "2", "6">>,
   <<"6", "-", "2", "0", "2", "6">>,
   <<"0", "6", "/", "2", "6">>,
   <<"1", "2", "/", "4", "0">>,
   <<"1", "2", "/", "4", "1">>,
   <<"3", "1", "/", "1", "2", "/", "1", "9", "9", "9">>,
   <<"2", "0", "4", "1", "-", "0", "1", "-", "0", "1">>,
   <<"2", "0", "2", "0", "-", "0", "1", "-", "0", "1">>,
   <<"2", "0", "4", "0", "-", "1", "2", "-", "3", "1">>,
   <<"2", "0", "1", "9", "-", "1", "2", "-", "3", "1">>,
   <<"2", "O", "2", "6", "-", "|", "2", "-", "3", "I">>,
   <<"2", "O", "2", "6", "-", "|", "2", "-", "3", "l">>,
   <<"1", "5", "J", "U", "N", "2", "0", "2", "6">>,
   <<"j", "u", "n", " ", "2", "0", "2", "6">>,
   <<"E", "x", "p", " ", "2", "6", "0", "6", "3", "0">>,
   <<"b", "e", "s", "t", " ", "b", "e", "f", "o", "r", "e", " ", "2", "6", "0", "6", "3", "0">>,
   <<"E", "X", "P", " ", "0", "6", "/", "2", "0", "2", "6">>,
   <<"B", "B", " ", "1", "2", "/", "2", "6">>,
   <<"1", "2", "/", "2", "7", " ", "2", "0", "2", "6", "-", "0", "6", "-", "3", "0">>,
   <<"J", "U", "N", " ", "2", "0", "2", "6", " ", "3", "0", "/", "0", "6", "/", "2", "0", "2", "7">>,
   <<"0", "1", "/", "2", "0", "1", "9", " ", "0", "6", "/", "2", "0", "2", "6">>,
   <<"E", "X", "P", " ", "2", "7", "0", "1", "0", "1", " ", "J", "U", "N", " ", "2", "0", "2", "6">>,
   <<"L", "O", "T", " ", "1", "2", "3", "4", "5">>,
   <<"2", "0", "2", "6", "-", "0", "2", "-", "2", "8">>,
   <<"X", "E", "X", "P", "2", "6", "0", "6", "3", "0">>}

OcrTexts == MonthTexts \cup LabelTexts \cup OtherTexts

InitOCR ==
  /\ ParserIdle
  /\ CatalogIdle
  /\ now = 0
  /\ tz \in TimeZones
  /\ isoDate = <<>>
  /\ status = ""
  /\ expiryClass = ""
  /\ text \in OcrTexts
  /\ extracted = Absent
  /\ AppIdle

\* extractDateFromOCR(text)
ExtractDate ==
  /\ "extractDateFromOCR" \notin done
  /\ extracted' = extractDateFromOCR(text, tz)
  /\ done' = done \cup {"extractDateFromOCR"}
  /\ UNCHANGED <<raw, gs1, ubp, fmt, text>>
  /\ UNCHANGED <<catalogVars, statusVars, appVars>>

NextOCR == ExtractDate

SpecOCR == InitOCR /\ [][NextOCR]_vars

\* ------------------------------------------------------------------------
\* Vocabulary of the date recognition properties
\* ------------------------------------------------------------------------
Extracted == "extractDateFromOCR" \in done

\* iso names a day of the calendar
IsDate(iso) ==
  /\ IsISODate(iso)
  /\ ISOMonth(iso) \in 1..12
  /\ ISODay(iso) \in 1..DaysInMonth(ISOYear(iso), ISOMonth(iso))

\* the date written as YYYY-MM-DD
DateText(y, m, d) ==
  IsoOf(NatToString(y), PadStart(NatToString(m), 2), PadStart(NatToString(d), 2))

\* the dates the seven notations, in their order, read in the normalised text
Readings == patterns(Normalise(text))

\* the notations whose reading is a date with a year in 2020..2040
InRange ==
  {k \in 1..7 : /\ Readings[k] # Absent
                /\ IsDate(Readings[k])
                /\ ISOYear(Readings[k]) \in 2020..2040}

\* ------------------------------------------------------------------------
\* C16
\* ------------------------------------------------------------------------
\* C16: extractDate returns the date read by the first of the seven notations,
\* in the order ISO, DD-MM-YYYY, MM-YYYY, MM-YY, MON YYYY, DD MON YYYY, labeled
\* YYMMDD, whose match has a year in 2020..2040; a match with a year outside
\* that range is discarded and the later notations are still tried; the result
\* is absent when no notation qualifies, as for "31/12/1999", so a returned
\* date always has a year in 2020..2040
C16_FirstNotationInRange ==
  Extracted =>
    /\ extracted = IF InRange = {} THEN Absent ELSE Readings[SetMin(InRange)]
    /\ extracted # Absent => ISOYear(extracted) \in 2020..2040
    /\ text = <<"3", "1", "/", "1", "2", "/", "1", "9", "9", "9">> => extracted = Absent

\* ------------------------------------------------------------------------
\* C17
\* ------------------------------------------------------------------------
TokenYear(k) == 2000 + ParseDigits(SubSeq(k, 1, 2), 10, 0)

TokenMonth(k) == ParseDigits(SubSeq(k, 3, 4), 10, 0)

TokenDay(k) == ParseDigits(SubSeq(k, 5, 6), 10, 0)

\* the date a YYMMDD token stands for, day 00 being the last day of the month
TokenDate(k) ==
  DateText(TokenYear(k), TokenMonth(k),
           IF TokenDay(k) = 0 THEN DaysInMonth(TokenYear(k), TokenMonth(k))
           ELSE TokenDay(k))

\* C17: a text that is one of the labels EXP, BB, EXPIRY, BEST BEFORE, USE BY
\* followed by a six-digit YYMMDD token with YY in 20..40 and MM in 01..12
\* yields the date 20YY-MM-DD, day 00 meaning the last day of the month
\* ("BEST BEFORE 260630" yields 2026-06-30): the normalisation keeps none of
\* the five labels from being recognised
C17_LabeledDates ==
  Extracted =>
    /\ \A l \in Labels, s \in LabelSeps, k \in Tokens :
         (/\ text = l \o s \o k
          /\ TokenYear(k) \in 2020..2040
          /\ TokenMonth(k) \in 1..12) => extracted = TokenDate(k)
    /\ text = <<"B", "E", "S", "T", " ", "B", "E", "F", "O", "R", "E", " ", "2", "6", "0", "6", "3", "0">> => extracted = <<"2", "0", "2", "6", "-", "0", "6", "-", "3", "0">>

\* ------------------------------------------------------------------------
\* C18
\* ------------------------------------------------------------------------
\* C18: for each of the twelve month abbreviations and each year in
\* 2020..2040 the text "MON YYYY" yields the last day of that month of that
\* year ("JUN 2026" yields 2026-06-30, "OCT 2026" yields 2026-10-31)
C18_MonthYearIsLastDay ==
  Extracted =>
    \A i \in 1..12, y \in OcrYears \cap 2020..2040 :
      text = MONTHS[i] \o <<" ">> \o NatToString(y) =>
        extracted = DateText(y, i, DaysInMonth(y, i))

\* ------------------------------------------------------------------------
\* C19
\* ------------------------------------------------------------------------
\* C19: a text "DD MON YYYY" with white space between the parts, such as
\* "15 JUN 2026", yields exactly that day, month and year
C19_DayMonthYearIsThatDay ==
  Extracted =>
    \A d \in {1, 15, 28}, i \in 1..12, y \in OcrYears \cap 2020..2040 :
      text = NatToString(d) \o <<" ">> \o MONTHS[i] \o <<" ">> \o NatToString(y) =>
        extracted = DateText(y, i, d)

\* ------------------------------------------------------------------------
\* C20
\* ------------------------------------------------------------------------
\* raw is empty or white space only
Blank == \A i \in 1..Len(raw) : raw[i] \in WhiteSpace

ValueOf(v) == IF v = Absent THEN <<>> ELSE v

\* C24: GS1.parse reads a positional input with Group Separators with a cursor
\* that skips a separator, consumes an element 01, 11 or 17 whole (tag plus 14, 6
\* and 6 characters), consumes an element 10 or 21 up to the next separator or the
\* end, and steps over any other token one character at a time: of an input made
\* of separated elements 01, 11, 17, 10, 21 the gtin, the expiry, the batch and
\* the serial are the values of the elements 01, 17, 10 and 21, the digits of the
\* production date (element 11) being read as no tag.
C24_CursorScan ==
  \A g \in Gtins, p \in Opt(ProductionDates), e \in Opt(Dates),
     b \in Opt(Texts), s \in Opt(Texts) :
    (ParsedGS1 /\ raw = Separated(g, p, e, b, s)) =>
      /\ gs1.gtin = g
      /\ gs1.expiry = ValueOf(e)
      /\ gs1.batch = ValueOf(b)
      /\ gs1.serial = ValueOf(s)

AI17 == <<"1", "7">>

AI10 == <<"1", "0">>

AI21 == <<"2", "1">>

\* the known AI tokens that end a variable-length field, the field's own tag left out
KnownTokens == {AI17, AI10, AI21, <<"1", "1">>, <<"2", "4">>, <<"0", "1">>}

\* the text of s from offset p up to the next token of terms, or to the end
RECURSIVE UpToToken(_, _, _, _)
UpToToken(s, p, k, terms) ==
  IF p + k >= Len(s) \/ (\E t \in terms : StartsWithAt(s, t, p + k))
  THEN Substring(s, p, p + k)
  ELSE UpToToken(s, p, k + 1, terms)

\* batch and serial values written with capital letters and digits only
PlainTexts25 == {t \in Texts : \A i \in 1..Len(t) : t[i] \in SerialClass}

\* offset of the value of element 10 / 21 in Positional(g, e, b, s, <<>>)
BatchAt(e) == 16 + Len(Field(AI17, e)) + 2

SerialAt(e, b) == 16 + Len(Field(AI17, e)) + Len(Field(AI10, b)) + 2

\* C25: in a positional input without Group Separator the batch is the text from
\* behind its tag 10 up to the next of the tokens 17, 21, 11, 24, 01 or the end, and
\* the serial the text from behind its tag 21 up to the next of 17, 10, 11, 24, 01
\* or the end, in both parsers.
C25_EndsAtNextToken ==
  \A g \in Gtins, e \in Opt(Dates), b \in Opt(PlainTexts25), s \in Opt(PlainTexts25) :
    LET code == Positional(g, e, b, s, <<>>)
        batch == UpToToken(code, BatchAt(e), 1, KnownTokens \ {AI10})
        serial == UpToToken(code, SerialAt(e, b), 1, KnownTokens \ {AI21})
    IN  /\ (ParsedUnified /\ raw = code /\ ubp.format = F_GS1_FULL) =>
             /\ b # Absent => ubp.batch = batch
             /\ s # Absent => ubp.serial = serial
        /\ (ParsedGS1 /\ raw = code) =>
             /\ b # Absent => gs1.batch = batch
             /\ s # Absent => gs1.serial = serial

\* ------------------------------------------------------------------------
\* The application (src/app.js): the stores 'master' and 'history', the draft
\* of the product panel, and the handlers, each split at its awaits
\* ------------------------------------------------------------------------
\* scans the clock counts
MaxScans == 2

\* records the history store ever creates
MaxRecords == 2

\* handlers awaiting a store or the recognition at the same time
MaxInFlight == 2

\* the char code of a character of a barcode key (digits and "-")
KeyCode(c) == IF c \in Digit THEN 48 + DigitVal(c) ELSE 45

\* the order of string keys in an object store
RECURSIVE KeyLess(_, _)
KeyLess(a, b) ==
  IF a = <<>> THEN b # <<>>
  ELSE IF b = <<>> THEN FALSE
  ELSE IF a[1] = b[1] THEN KeyLess(Tail(a), Tail(b))
  ELSE KeyCode(a[1]) < KeyCode(b[1])

\* map.delete(k) for every k of ks
MapDel(map, ks) == [x \in DOMAIN map \ ks |-> map[x]]

\* DB.getAll('master'): the items in the order of their keys
RECURSIVE GetAll(_)
GetAll(st) ==
  IF DOMAIN st = {} THEN <<>>
  ELSE LET k == CHOOSE k \in DOMAIN st : \A j \in DOMAIN st \ {k} : KeyLess(k, j)
       IN  <<st[k]>> \o GetAll(MapDel(st, {k}))

\* bulkMaster without the overwrite: an item whose barcode is in the store is skipped
RECURSIVE DB_bulkMaster_AddOnly(_, _)
DB_bulkMaster_AddOnly(st, items) ==
  IF items = <<>> THEN st
  ELSE LET it == Head(items)
       IN  DB_bulkMaster_AddOnly(IF it.barcode # <<>> /\ it.barcode \notin DOMAIN st
                                 THEN MapSet(st, it.barcode, it) ELSE st,
                                 Tail(items))

\* DB.bulkMaster(items): st.put(it) for every item with a barcode
RECURSIVE DB_bulkMaster(_, _)
DB_bulkMaster(st, items) ==
  IF items = <<>> THEN st
  ELSE LET it == Head(items)
       IN  DB_bulkMaster(IF it.barcode # <<>> THEN MapSet(st, it.barcode, it) ELSE st,
                         Tail(items))

\* the items uploadMaster makes of the rows of a file: a barcode of 8 digits or more
ImportItems(rows) ==
  SelectSeq(rows, LAMBDA it : it.barcode # <<>> /\ Len(Keep(it.barcode, Digit)) >= 8)

\* the barcode whose 14-digit form is G1
B11 == SubstringFrom(G1, 3)

ItemA == Item(B11, "Aspirin", "R1")

ItemA2 == Item(B11, "Aspirin 500", "R9")

ItemB == Item(B13, "Zyrtec", "")

Short7 == Item(<<"1", "2", "3", "4", "5", "6", "7">>, "Short7", "R4")

\* the rows of the master files uploaded
AppFiles == {<<ItemA, Short7>>, <<ItemB>>, <<ItemA2>>}

\* a saved record
Record(ts, gtin, name, expiryISO) ==
  [ts |-> ts, gtin |-> gtin, name |-> name, expiryISO |-> expiryISO]

\* a backup file with history and master
FullBackup ==
  [history |-> <<Record(0, PadStart(B13, 14), "Zyrtec", <<>>)>>, master |-> <<ItemB>>]

\* a backup file with the history alone
HistoryBackup ==
  [history |-> <<Record(0, PadStart(B13, 14), "Zyrtec", <<>>)>>, master |-> <<>>]

\* a backup file with the master alone
MasterBackup == [history |-> <<>>, master |-> <<ItemA>>]

\* scanned texts: GS1 without and with expiry, a plain EAN-13, no GTIN
ScanNoExpiry == <<"0", "1">> \o G1

ScanExpiry == <<"0", "1">> \o G1 \o <<"1", "7", "2", "6", "0", "6", "3", "0">>

ScanEAN13 == B13

ScanNoGtin == <<"A", "B", "C">>

\* texts recognised in the photos: one with a date, one without
OcrDated == <<"E", "X", "P", " ", "2", "0", "2", "7", "-", "0", "1", "-", "1", "5">>

OcrUndated == <<"L", "O", "T">>

\* the dates typed into the edit form
EditDates == {<<"2", "0", "2", "8", "-", "0", "2", "-", "2", "9">>}

\* the application started, and what extractDateFromOCR makes of the photos the
\* user takes
InitApp ==
  /\ ParserIdle /\ CatalogIdle /\ StatusIdle /\ OcrIdle /\ Fresh
  /\ ocrDates = [t \in {OcrDated, OcrUndated} |-> extractDateFromOCR(t, tz)]

\* the handlers that await a store or the recognition
InFlight ==
  Len(saves) + (IF ocrRun # NoRun THEN 1 ELSE 0) + (IF catalogOp # Idle THEN 1 ELSE 0)
    + (IF refreshing THEN 1 ELSE 0) + (IF editing # NoEdit THEN 1 ELSE 0)

\* a handler runs while Master.build is in its loop
Yielded_MidBuild == TRUE

\* Master.build has no await: no other handler runs before its loop has ended
Yielded == ~building.running

\* the record DB.add('history', e) clones from the draft e
Saved(e) == Record(e.ts, e.gtin, e.name, e.expiryISO)

\* the draft entry onBarcode builds of the parse result and the match, and
\* whether showProductPanel is told that it has a GS1 expiry
Draft(parsed, match, ts) ==
  [ts |-> ts,
   gtin |-> parsed.gtin,
   name |-> IF match.name # "" THEN match.name ELSE "Unknown Product",
   expiryISO |-> parsed.expiryISO,
   hasExpiry |-> parsed.isGS1 /\ parsed.expiryISO # <<>>]

\* onBarcode from the parse result on: without a gtin a toast and nothing else,
\* with one the look-up, the new draft and showProductPanel
Scanned(parsed) ==
  IF parsed.gtin = <<>>
  THEN UNCHANGED <<currentEntry, ppExpiry, clock>>
  ELSE /\ currentEntry' = Draft(parsed, Master_find(Index, parsed.gtin), clock)
       /\ ppExpiry' = parsed.expiryISO
       /\ clock' = clock + 1

\* onBarcode(r): parse, look up, open the product panel on the new draft
OnBarcode(r) ==
  /\ Yielded
  /\ clock <= MaxScans
  /\ Trim(r) # <<>>
  /\ Scanned(GS1_parse(Trim(r)))
  /\ UNCHANGED <<store, history, nextId, saves, ocrRun, catalogOp, refreshing, building>>
  /\ UNCHANGED <<parserVars, catalogVars, statusVars, ocrVars, ocrDates, editing>>

\* closeProductPanel() from btnSkip, ppClose or Escape
CloseProductPanel ==
  /\ Yielded
  /\ currentEntry # NoEntry
  /\ currentEntry' = NoEntry
  /\ UNCHANGED <<store, history, nextId, clock, ppExpiry, saves, ocrRun, catalogOp,
                 refreshing, building>>
  /\ UNCHANGED <<parserVars, catalogVars, statusVars, ocrVars, ocrDates, editing>>

\* saveCurrentEntry() up to its await DB.add('history', e)
SaveCurrentEntry ==
  /\ Yielded
  /\ InFlight < MaxInFlight
  /\ currentEntry # NoEntry
  /\ nextId + Len(saves) <= MaxRecords
  /\ currentEntry' = [currentEntry EXCEPT !.expiryISO = ppExpiry]
  /\ saves' = Append(saves, Saved(currentEntry'))
  /\ UNCHANGED <<store, history, nextId, clock, ppExpiry, ocrRun, catalogOp, refreshing,
                 building>>
  /\ UNCHANGED <<parserVars, catalogVars, statusVars, ocrVars, ocrDates, editing>>

\* saveCurrentEntry() from the moment DB.add has stored the record:
\* closeProductPanel() and refreshAll()
SaveStored ==
  /\ Yielded
  /\ saves # <<>>
  /\ history' = MapSet(history, nextId, Head(saves))
  /\ nextId' = nextId + 1
  /\ saves' = Tail(saves)
  /\ currentEntry' = NoEntry
  /\ refreshing' = TRUE
  /\ UNCHANGED <<store, clock, ppExpiry, ocrRun, catalogOp, building>>
  /\ UNCHANGED <<parserVars, catalogVars, statusVars, ocrVars, ocrDates, editing>>

\* DB.add rejects: saveCurrentEntry ends at its await
SaveRejected ==
  /\ Yielded
  /\ saves # <<>>
  /\ saves' = Tail(saves)
  /\ UNCHANGED <<store, history, nextId, clock, currentEntry, ppExpiry, ocrRun, catalogOp,
                 refreshing, building>>
  /\ UNCHANGED <<parserVars, catalogVars, statusVars, ocrVars, ocrDates, editing>>

\* runOCR(file) up to its await recognize(file); the OCR button is shown for a
\* draft without a GS1 expiry
RunOCR(t) ==
  /\ Yielded
  /\ InFlight < MaxInFlight
  /\ currentEntry # NoEntry
  /\ ~currentEntry.hasExpiry
  /\ ocrRun = NoRun
  /\ ocrRun' = [draft |-> currentEntry.ts, text |-> t]
  /\ UNCHANGED <<store, history, nextId, clock, currentEntry, ppExpiry, saves, catalogOp,
                 refreshing, building>>
  /\ UNCHANGED <<parserVars, catalogVars, statusVars, ocrVars, ocrDates, editing>>

\* runOCR writing the date it finds into the saved records of its draft as well
Recognized_IntoRecords ==
  /\ Yielded
  /\ ocrRun # NoRun
  /\ LET date == ocrDates[ocrRun.text]
     IN  /\ ppExpiry' = IF date # Absent THEN date ELSE ppExpiry
         /\ history' = [id \in DOMAIN history |->
                          IF date # Absent /\ history[id].ts = ocrRun.draft
                          THEN [history[id] EXCEPT !.expiryISO = date]
                          ELSE history[id]]
  /\ ocrRun' = NoRun
  /\ UNCHANGED <<store, nextId, clock, currentEntry, saves, catalogOp, refreshing,
                 building>>
  /\ UNCHANGED <<parserVars, catalogVars, statusVars, ocrVars, ocrDates, editing>>

\* runOCR(file) from the moment the text is recognised: a date found goes into ppExpiry
Recognized ==
  /\ Yielded
  /\ ocrRun # NoRun
  /\ LET date == ocrDates[ocrRun.text]
     IN  ppExpiry' = IF date # Absent THEN date ELSE ppExpiry
  /\ ocrRun' = NoRun
  /\ UNCHANGED <<store, history, nextId, clock, currentEntry, saves, catalogOp, refreshing,
                 building>>
  /\ UNCHANGED <<parserVars, catalogVars, statusVars, ocrVars, ocrDates, editing>>

\* saveEdit() on the record id with the expiry iso in the edit form, up to its
\* await DB.put('history', h): the record read and changed
SaveEdit(id, iso) ==
  /\ Yielded
  /\ InFlight < MaxInFlight
  /\ editing = NoEdit
  /\ saves = <<>>
  /\ id \in DOMAIN history
  /\ editing' = [id |-> id, h |-> [history[id] EXCEPT !.expiryISO = iso]]
  /\ UNCHANGED <<store, history, nextId, clock, currentEntry, ppExpiry, saves, ocrRun,
                 catalogOp, refreshing, building>>
  /\ UNCHANGED <<parserVars, catalogVars, statusVars, ocrVars, ocrDates>>

\* saveEdit() from the moment DB.put has stored the record: refreshAll()
EditStored ==
  /\ Yielded
  /\ editing # NoEdit
  /\ saves = <<>>
  /\ history' = MapSet(history, editing.id, editing.h)
  /\ editing' = NoEdit
  /\ refreshing' = TRUE
  /\ UNCHANGED <<store, nextId, clock, currentEntry, ppExpiry, saves, ocrRun, catalogOp,
                 building>>
  /\ UNCHANGED <<parserVars, catalogVars, statusVars, ocrVars, ocrDates>>

\* delItem(id), confirmed
DelItem(id) ==
  /\ Yielded
  /\ saves = <<>>
  /\ InFlight < MaxInFlight
  /\ id \in DOMAIN history
  /\ history' = MapDel(history, {id})
  /\ refreshing' = TRUE
  /\ UNCHANGED <<store, nextId, clock, currentEntry, ppExpiry, saves, ocrRun, catalogOp,
                 building>>
  /\ UNCHANGED <<parserVars, catalogVars, statusVars, ocrVars, ocrDates, editing>>

\* clearAllHistory(), confirmed
ClearAllHistory ==
  /\ Yielded
  /\ saves = <<>>
  /\ InFlight < MaxInFlight
  /\ history' = EmptyMap
  /\ refreshing' = TRUE
  /\ UNCHANGED <<store, nextId, clock, currentEntry, ppExpiry, saves, ocrRun, catalogOp,
                 building>>
  /\ UNCHANGED <<parserVars, catalogVars, statusVars, ocrVars, ocrDates, editing>>

\* the handlers leave everything but the stores and the catalog operation alone
CatalogStep ==
  /\ UNCHANGED <<clock, currentEntry, ppExpiry, saves, ocrRun, refreshing, building>>
  /\ UNCHANGED <<parserVars, catalogVars, statusVars, ocrVars, ocrDates, editing>>

\* uploadMaster(file, append) up to its first await on the store; a file without
\* rows returns before it
UploadMaster(rows, append) ==
  /\ Yielded
  /\ InFlight < MaxInFlight
  /\ catalogOp = Idle
  /\ Len(rows) >= 1
  /\ catalogOp' = [op |-> "upload", pc |-> IF append THEN "bulk" ELSE "clear",
                   append |-> append, items |-> ImportItems(rows), records |-> <<>>]
  /\ UNCHANGED <<store, history, nextId>>
  /\ CatalogStep

\* resetMaster(), confirmed, up to its await DB.clear('master')
ResetMaster ==
  /\ Yielded
  /\ InFlight < MaxInFlight
  /\ catalogOp = Idle
  /\ catalogOp' = [op |-> "reset", pc |-> "clear", append |-> FALSE, items |-> <<>>,
                   records |-> <<>>]
  /\ UNCHANGED <<store, history, nextId>>
  /\ CatalogStep

\* restoreBackup(file) up to its first await on a store
RestoreBackup(bk) ==
  /\ Yielded
  /\ InFlight < MaxInFlight
  /\ catalogOp = Idle
  /\ catalogOp' = [op |-> "restore",
                   pc |-> IF bk.history # <<>> THEN "hclear"
                          ELSE IF bk.master # <<>> THEN "clear" ELSE "refresh",
                   append |-> FALSE, items |-> bk.master, records |-> bk.history]
  /\ UNCHANGED <<store, history, nextId>>
  /\ CatalogStep

\* restoreBackup: DB.clear('history') done
HistoryCleared ==
  /\ Yielded
  /\ saves = <<>>
  /\ catalogOp.pc = "hclear"
  /\ history' = EmptyMap
  /\ catalogOp' = [catalogOp EXCEPT !.pc = "hadd"]
  /\ UNCHANGED <<store, nextId>>
  /\ CatalogStep

\* restoreBackup: one DB.add('history', it) of the loop done, the id of it deleted
HistoryRestored ==
  /\ Yielded
  /\ saves = <<>>
  /\ catalogOp.pc = "hadd"
  /\ nextId <= MaxRecords
  /\ history' = MapSet(history, nextId, Head(catalogOp.records))
  /\ nextId' = nextId + 1
  /\ catalogOp' =
       [catalogOp EXCEPT
          !.records = Tail(catalogOp.records),
          !.pc = IF Tail(catalogOp.records) # <<>> THEN "hadd"
                 ELSE IF catalogOp.items # <<>> THEN "clear" ELSE "refresh"]
  /\ UNCHANGED store
  /\ CatalogStep

\* DB.clear('master') done, in uploadMaster, resetMaster or restoreBackup
MasterCleared ==
  /\ Yielded
  /\ catalogOp.pc = "clear"
  /\ store' = EmptyMap
  /\ catalogOp' = [catalogOp EXCEPT !.pc = IF catalogOp.op = "reset" THEN "refresh"
                                           ELSE "bulk"]
  /\ UNCHANGED <<history, nextId>>
  /\ CatalogStep

\* DB.bulkMaster(items) done, in uploadMaster or restoreBackup
MasterWritten ==
  /\ Yielded
  /\ catalogOp.pc = "bulk"
  /\ store' = DB_bulkMaster(store, catalogOp.items)
  /\ catalogOp' = [catalogOp EXCEPT !.pc = "refresh"]
  /\ UNCHANGED <<history, nextId>>
  /\ CatalogStep

\* a request on a store fails: the catch of uploadMaster and of restoreBackup
\* shows a toast, resetMaster ends at its await; none of them refreshes
StoreFailed ==
  /\ Yielded
  /\ catalogOp.pc \in {"hclear", "hadd", "clear", "bulk"}
  /\ catalogOp' = Idle
  /\ UNCHANGED <<store, history, nextId>>
  /\ CatalogStep

\* Master.build(data) up to its loop: both maps cleared
BuildBegins(data) ==
  /\ master' = data
  /\ masterIndex' = EmptyMap
  /\ masterRMS' = EmptyMap
  /\ building' = [running |-> TRUE, left |-> data]

\* refreshMasterCount() of the catalog operation: getAll done, Master.build begins
RefreshMasterCount ==
  /\ Yielded
  /\ catalogOp.pc = "refresh"
  /\ BuildBegins(GetAll(store))
  /\ catalogOp' = [catalogOp EXCEPT !.pc = "build"]
  /\ UNCHANGED <<store, history, nextId, clock, currentEntry, ppExpiry, saves, ocrRun,
                 refreshing>>
  /\ UNCHANGED <<found, parserVars, statusVars, ocrVars, ocrDates, editing>>

\* refreshAll() of saveCurrentEntry, saveEdit, delItem or clearAllHistory: getAll
\* done, Master.build begins
RefreshAll ==
  /\ Yielded
  /\ refreshing
  /\ refreshing' = FALSE
  /\ BuildBegins(GetAll(store))
  /\ UNCHANGED <<store, history, nextId, clock, currentEntry, ppExpiry, saves, ocrRun,
                 catalogOp>>
  /\ UNCHANGED <<found, parserVars, statusVars, ocrVars, ocrDates, editing>>

\* one turn of the loop of Master.build
BuildItem ==
  /\ building.running
  /\ building.left # <<>>
  /\ LET built == BuildFrom(Index, <<Head(building.left)>>)
     IN  /\ masterIndex' = built.masterIndex
         /\ masterRMS' = built.masterRMS
  /\ building' = [building EXCEPT !.left = Tail(building.left)]
  /\ UNCHANGED <<store, history, nextId, clock, currentEntry, ppExpiry, saves, ocrRun,
                 catalogOp, refreshing>>
  /\ UNCHANGED <<master, found, parserVars, statusVars, ocrVars, ocrDates, editing>>

\* Master.build returns; the catalog operation that awaited it ends
BuildEnds ==
  /\ building.running
  /\ building.left = <<>>
  /\ building' = NoBuild
  /\ catalogOp' = IF catalogOp.pc = "build" THEN Idle ELSE catalogOp
  /\ UNCHANGED <<store, history, nextId, clock, currentEntry, ppExpiry, saves, ocrRun,
                 refreshing>>
  /\ UNCHANGED <<parserVars, catalogVars, statusVars, ocrVars, ocrDates, editing>>

\* the catalog operations, interleaved with scans and with the refresh of a
\* history handler
NextImport ==
  \/ \E r \in {ScanNoExpiry, ScanEAN13, ScanNoGtin} : OnBarcode(r)
  \/ CloseProductPanel
  \/ ClearAllHistory
  \/ \E rows \in AppFiles, append \in BOOLEAN : UploadMaster(rows, append)
  \/ ResetMaster
  \/ \E bk \in {FullBackup, MasterBackup} : RestoreBackup(bk)
  \/ HistoryCleared
  \/ HistoryRestored
  \/ MasterCleared
  \/ MasterWritten
  \/ StoreFailed
  \/ RefreshMasterCount
  \/ RefreshAll
  \/ BuildItem
  \/ BuildEnds

SpecImport == InitApp /\ [][NextImport]_vars

\* the handlers of the drafts and of the saved records, interleaved with the
\* restore of a backup; no catalog is loaded, so Master.build has no item to
\* register
NextHistory ==
  \/ OnBarcode(ScanNoExpiry)
  \/ CloseProductPanel
  \/ SaveCurrentEntry
  \/ SaveStored
  \/ SaveRejected
  \/ RunOCR(OcrDated)
  \/ Recognized
  \/ \E id \in 1..MaxRecords, iso \in EditDates : SaveEdit(id, iso)
  \/ EditStored
  \/ \E id \in 1..MaxRecords : DelItem(id)
  \/ ClearAllHistory
  \/ RestoreBackup(HistoryBackup)
  \/ HistoryCleared
  \/ HistoryRestored
  \/ StoreFailed
  \/ RefreshMasterCount
  \/ RefreshAll
  \/ BuildEnds

SpecHistory == InitApp /\ [][NextHistory]_vars

\* ------------------------------------------------------------------------
\* C21, C22, C28: the catalog and its index
\* ------------------------------------------------------------------------
\* the barcodes of the items
BarcodesOf(items) == {items[i].barcode : i \in 1..Len(items)}

\* the last item of items with barcode b
LastWith(items, b) ==
  items[CHOOSE i \in 1..Len(items) :
          /\ items[i].barcode = b
          /\ \A j \in (i + 1)..Len(items) : items[j].barcode # b]

\* the store st holds the items, one entry per barcode, and nothing else
HoldsExactly(st, items) ==
  /\ DOMAIN st = BarcodesOf(items)
  /\ \A b \in DOMAIN st : st[b] = LastWith(items, b)

\* an uploadMaster has written its items and not yet returned
Imported == catalogOp.op = "upload" /\ catalogOp.pc \in {"refresh", "build"}

\* C21 as stated: when an import has written the store, the catalog consists of
\* exactly the entries of that import, whatever was loaded before.
C21_ExactlyTheImport == Imported => HoldsExactly(store, catalogOp.items)

\* the step in which an uploadMaster writes the store
Writes == catalogOp.op = "upload" /\ catalogOp.pc = "bulk" /\ catalogOp'.pc = "refresh"

\* C21 amended: a replacing import leaves exactly the entries of the import in the
\* catalog; an appending import keeps the entries loaded before whose barcode is
\* not in the import, adds the entries of the import and overwrites the entries
\* loaded before that have a barcode of the import; either way only rows with a
\* barcode of 8 digits or more are entries of the import.
C21_ReplaceOrMerge ==
  [][Writes =>
       /\ \A b \in BarcodesOf(catalogOp.items) :
            /\ b \in DOMAIN store'
            /\ store'[b] = LastWith(catalogOp.items, b)
            /\ Len(Keep(b, Digit)) >= 8
       /\ \A b \in DOMAIN store \ BarcodesOf(catalogOp.items) :
            /\ catalogOp.append
            /\ b \in DOMAIN store'
            /\ store'[b] = store[b]
       /\ DOMAIN store' \subseteq DOMAIN store \cup BarcodesOf(catalogOp.items)
       /\ ~catalogOp.append => HoldsExactly(store', catalogOp.items)]_vars

\* an appending import of one entry has left two entries in the catalog
C21_Witness ==
  /\ Imported
  /\ catalogOp.append
  /\ catalogOp.items = <<ItemB>>
  /\ DOMAIN store = {B11, B13}

\* C22: at every point where a handler, and so Master.find, can run, the index is
\* the complete index Master.build makes of the list it was last called with:
\* never the cleared maps or the maps of a part of that list.
C22_IndexIsComplete == Yielded => Index = Master_build(master)

\* a scan can run between the clearing of the store and the rebuild of the index
\* of a replacing import, and finds the complete index of the last build
C22_Witness ==
  /\ Yielded
  /\ catalogOp.op = "upload"
  /\ catalogOp.pc = "bulk"
  /\ store = EmptyMap
  /\ master = <<ItemA>>
  /\ Index = Master_build(<<ItemA>>)
  /\ currentEntry # NoEntry
  /\ currentEntry.name = "Aspirin"

\* C28: whenever no import, reset or restore is in progress, the index is the
\* index Master.build makes of the contents of the master store, also after an
\* operation that failed part-way.
C28_IndexIsOfStore ==
  (catalogOp = Idle /\ Yielded) => Index = Master_build(GetAll(store))

\* ------------------------------------------------------------------------
\* C23, C26, C27: drafts and saved records
\* ------------------------------------------------------------------------
\* the step creates, changes, removes the record id
Creates(id) == id \notin DOMAIN history /\ id \in DOMAIN history'

Changes(id) == id \in DOMAIN history /\ id \in DOMAIN history' /\ history'[id] # history[id]

Removes(id) == id \in DOMAIN history /\ id \notin DOMAIN history'

\* the keys the history store can hold
Ids == 1..(MaxRecords + 1)

\* C23 as stated: a saved record is created by a save only, changed by an edit
\* only, and removed by a delete (of one record or of all) only.
C23_SaveEditDeleteOnly ==
  [][\A id \in Ids :
       /\ Creates(id) => SaveStored
       /\ Changes(id) => (EditStored /\ editing.id = id)
       /\ Removes(id) => (DelItem(id) \/ ClearAllHistory)]_vars

\* C23 amended: a saved record is created by a save, by the restore of a backup,
\* or by the DB.put of an edit whose record was removed after the edit had read
\* it, and by nothing else; it is changed by an edit only; it is removed by a
\* delete (of one record or of all) or by the restore of a backup with history
\* only.
C23_SaveEditDeleteRestore ==
  [][\A id \in Ids :
       /\ Creates(id) => (SaveStored \/ HistoryRestored \/ (EditStored /\ editing.id = id))
       /\ Changes(id) => (EditStored /\ editing.id = id)
       /\ Removes(id) => (DelItem(id) \/ ClearAllHistory \/ HistoryCleared)]_vars

\* a restore has removed the saved records and created the record of the backup
C23_Witness ==
  /\ nextId > 2
  /\ \E id \in DOMAIN history : history[id].ts = 0
  /\ \A id \in DOMAIN history : history[id].ts = 0

\* C26: no two saved records come from the same draft.
C26_OneRecordPerDraft ==
  \A i, j \in DOMAIN history : i # j => history[i].ts # history[j].ts

\* C27: when a run of the recognition ends while the draft in the panel is not
\* the draft it was started on, the expiry in the panel and the saved records
\* stay as they are.
C27_OnlyItsOwnDraft ==
  [][(/\ ocrRun # NoRun
      /\ ocrRun' = NoRun
      /\ currentEntry # NoEntry
      /\ currentEntry.ts # ocrRun.draft)
       => (ppExpiry' = ppExpiry /\ history' = history)]_vars

====
